---- MODULE Spec2Model ----
(***************************************************************************)
(* Verification model of the korangar rendering core.                      *)
(*                                                                         *)
(* Part 1: GlobalContext (korangar/src/graphics/mod.rs), the owner of the  *)
(* GPU resources shared by all passes.  Every device object (texture,      *)
(* buffer, sampler, bind group) carries the number the device gave it when *)
(* it was created (`id`); a bind group records the ids of the objects it   *)
(* binds, so a stale reference is a recorded id that differs from the id   *)
(* of the object the field holds now.                                      *)
(*                                                                         *)
(* Screen sizes are whole pixel counts (ScreenSize stores them as f32; the *)
(* `as u32` casts of the source are exact on them).  Buffer capacities are *)
(* in bytes, as in the source.                                             *)
(***************************************************************************)
EXTENDS Integers, Sequences, FiniteSets, TLC

----------------------------------------------------------------------------
(* Bounds of the model. *)

\* Number of settings updates explored after construction.
MaxUpdates == 1
\* Number of uploads (frames) explored after construction.
MaxFrames == 2

----------------------------------------------------------------------------
(* Program constants. *)

LIGHT_TILE_SIZE == 16
MAX_BUFFER_SIZE == 128 * 1024 * 1024
COPY_BYTES_PER_ROW_ALIGNMENT == 256
NUMBER_OF_POINT_LIGHTS_WITH_SHADOWS == 6
\* TextureFormat::Rg32Uint.block_copy_size(None)
PickerBlockSize == 8
\* Sample count of the interface attachment factory.
InterfaceSampleCount == 4
\* Mutation of InitialPointLightCapacity: a buffer sized for twice the lights.
InitialPointLightCapacityDoubled == 2 * 128

\* Initial element capacity of the point light buffer.
InitialPointLightCapacity == 128

SizeOfGlobalUniforms == 384
SizeOfDirectionalLightUniforms == 96
SizeOfPointLightData == 48
SizeOfDebugUniforms == 20
SizeOfTileLightIndices == 1024
SizeOfPickerValue == 8
SizeOfU32 == 4
SizeOfDispatchIndirectArgs == 12

----------------------------------------------------------------------------
(* Input domains. *)

ScreenSize(w, h) == [width |-> w, height |-> h]

ScreenSizes ==
    { ScreenSize(0, 0), ScreenSize(40, 17), ScreenSize(800, 600), ScreenSize(1920, 1080) }

\* The screen sizes a GlobalContext is constructed with.
InitialScreenSizes == { ScreenSize(0, 0), ScreenSize(1920, 1080) }

MsaaValues == { "Off", "X4" }
ScreenSpaceAntiAliasingValues == { "Off", "Fxaa", "Cmaa2" }
ShadowDetails == { "Normal", "Ultra" }
TextureSamplerTypes == { "Nearest", "Linear" }

\* Color: the channels are 8 bit sRGB values, of which the model uses the
\* two ends of the range.
Color(red, green, blue) == [red |-> red, green |-> green, blue |-> blue, alpha |-> 255]

\* Color::BLACK
BLACK == Color(0, 0, 0)

Colors == { BLACK, Color(255, 255, 255), Color(255, 0, 0) }

\* Color::components_linear: the channels as linear floats; 0 is 0.0 and
\* 255 is 1.0 in sRGB as in linear space, and alpha is not converted.
components_linear(color) ==
    <<color.red \div 255, color.green \div 255, color.blue \div 255, color.alpha \div 255>>

Directions == { "down", "east" }

\* The part of a RenderInstruction that GlobalContext reads: the number of
\* shadow casting and of plain point lights, the ambient color, the
\* directional light and the debug render settings.
RenderInstructionWith(casters, plain, ambient, directional, direction, render_settings) ==
    [casters |-> casters,
     plain |-> plain,
     uniforms |-> [ambient_light_color |-> ambient],
     directional_light_with_shadow |-> [color |-> directional, direction |-> direction],
     render_settings |-> render_settings]

RenderSettingsValues == [show_ambient_light : BOOLEAN, show_directional_light : BOOLEAN]

\* A render instruction of a white ambient light and a red directional light
\* with both lights shown.
RenderInstruction(casters, plain) ==
    RenderInstructionWith(casters, plain, Color(255, 255, 255), Color(255, 0, 0), "down",
        [show_ambient_light |-> TRUE, show_directional_light |-> TRUE])

\* A frame's point lights: the number of shadow casting point lights and
\* the number of plain point lights of the render instruction.
LightInstructions ==
    { RenderInstruction(0, 0), RenderInstruction(1, 2), RenderInstruction(2, 128) }

\* Render instructions of every color, direction and debug render setting.
LightingInstructions ==
    { RenderInstructionWith(1, 2, ambient, directional, direction, render_settings) :
          ambient \in Colors, directional \in Colors, direction \in Directions,
          render_settings \in RenderSettingsValues }

None == [variant |-> "None"]
Some(x) == [variant |-> "Some", value |-> x]

Max(a, b) == IF a >= b THEN a ELSE b
Min(a, b) == IF a <= b THEN a ELSE b

----------------------------------------------------------------------------
(* Settings types (graphic_settings.rs). *)

multisampling_activated(msaa) == msaa # "Off"

sample_count(msaa) == IF msaa = "Off" THEN 1 ELSE 4

directional_shadow_resolution(detail) == IF detail = "Normal" THEN 2048 ELSE 8192

point_shadow_resolution(detail) == IF detail = "Normal" THEN 128 ELSE 512

----------------------------------------------------------------------------
(* Buffer and texture primitives. *)

\* Buffer::with_capacity
BufferWithCapacity(id, capacity) == [id |-> id, capacity |-> capacity]

RECURSIVE NextPowerOfTwoFrom(_, _)
NextPowerOfTwoFrom(p, n) == IF p >= n THEN p ELSE NextPowerOfTwoFrom(2 * p, n)

\* The capacities a growing buffer may be given for `size` bytes: the
\* backing allocation is rounded up on growth.
GrownCapacities(size) == { size, NextPowerOfTwoFrom(1, size) }

\* Buffer::write reports a reallocation exactly when the data does not fit.
WriteRecreates(buffer, size) == size > buffer.capacity

\* Buffer::write: the buffer after writing `size` bytes; `id` and `grown`
\* are the id and capacity of the new allocation if one is needed.
BufferWrite(buffer, size, id, grown) ==
    IF WriteRecreates(buffer, size) THEN [id |-> id, capacity |-> grown] ELSE buffer

\* AttachmentTextureFactory::new followed by new_attachment.
NewAttachment(id, size, samples, padded_width, type) ==
    [id |-> id,
     width |-> IF padded_width.variant = "None" THEN size.width ELSE padded_width.value,
     height |-> size.height,
     sample_count |-> samples,
     type |-> type]

\* StorageTexture::new
NewStorageTexture(id, width, height) ==
    [id |-> id, width |-> width, height |-> height, sample_count |-> 1, type |-> "Storage"]

\* CubeArrayTexture::new
NewCubeArrayTexture(id, size, count) ==
    [id |-> id, width |-> size.width, height |-> size.height, count |-> count,
     type |-> "DepthAttachment"]

\* create_new_sampler
CreateNewSampler(id, type) == [id |-> id, type |-> type]

----------------------------------------------------------------------------
(* Free functions and constructors of GlobalContext. *)

\* Mutation of calculate_light_tile_count: the tile count is rounded down.
calculate_light_tile_count_rounding_down(screen_size) ==
    [x |-> screen_size.width \div LIGHT_TILE_SIZE,
     y |-> screen_size.height \div LIGHT_TILE_SIZE]

calculate_light_tile_count(screen_size) ==
    [x |-> (screen_size.width + LIGHT_TILE_SIZE - 1) \div LIGHT_TILE_SIZE,
     y |-> (screen_size.height + LIGHT_TILE_SIZE - 1) \div LIGHT_TILE_SIZE]

\* Mutation of picker_padded_width: the width is padded past the next
\* aligned width.
picker_width_padded_past_alignment(screen_size) ==
    (((screen_size.width * PickerBlockSize) \div COPY_BYTES_PER_ROW_ALIGNMENT + 1)
        * COPY_BYTES_PER_ROW_ALIGNMENT) \div PickerBlockSize

\* Mutation of picker_padded_width: the width is not aligned.
picker_unpadded_width(screen_size) == screen_size.width

\* ((width * block_size + (ALIGN - 1)) & !(ALIGN - 1)) / block_size
picker_padded_width(screen_size) ==
    (((screen_size.width * PickerBlockSize + (COPY_BYTES_PER_ROW_ALIGNMENT - 1))
        \div COPY_BYTES_PER_ROW_ALIGNMENT) * COPY_BYTES_PER_ROW_ALIGNMENT) \div PickerBlockSize

\* Creates two device objects, a + 1 and a + 2.
create_forward_texture(a, screen_size, msaa, ssaa) ==
    LET texture_type ==
            IF ~multisampling_activated(msaa) /\ ssaa = "Cmaa2"
            THEN "ColorStorageAttachment" ELSE "ColorAttachment"
    IN  [color |-> NewAttachment(a + 1, screen_size, sample_count(msaa), None, texture_type),
         depth |-> NewAttachment(a + 2, screen_size, sample_count(msaa), None, "Depth")]

\* Creates six device objects, a + 1 .. a + 6.
create_screen_size_textures(a, screen_size, msaa, ssaa) ==
    LET padded == Some(picker_padded_width(screen_size))
        forward == create_forward_texture(a + 2, screen_size, msaa, ssaa)
        tiles == calculate_light_tile_count(screen_size)
    IN  [picker_buffer_texture |-> NewAttachment(a + 1, screen_size, 1, padded, "PickerAttachment"),
         picker_depth_texture |-> NewAttachment(a + 2, screen_size, 1, padded, "Depth"),
         forward_color_texture |-> forward.color,
         forward_depth_texture |-> forward.depth,
         interface_buffer_texture |->
             NewAttachment(a + 5, screen_size, InterfaceSampleCount, None, "ColorAttachment"),
         tile_light_count_texture |-> NewStorageTexture(a + 6, tiles.x, tiles.y)]

ScreenSizeTextureCount == 6

\* Mutation of create_resolved_color_texture: the texture is needed when
\* the anti-aliasing mode is CMAA2.
create_resolved_color_texture_for_cmaa2(a, screen_size, msaa, ssaa) ==
    IF ssaa = "Cmaa2"
    THEN Some(NewAttachment(a + 1, screen_size, 1, None, "ColorStorageAttachment"))
    ELSE None

\* Mutation of create_resolved_color_texture: the texture is a color
\* attachment whatever the anti-aliasing mode.
create_resolved_color_attachment(a, screen_size, msaa, ssaa) ==
    IF multisampling_activated(msaa)
    THEN Some(NewAttachment(a + 1, screen_size, 1, None, "ColorAttachment"))
    ELSE None

\* Creates one device object, a + 1, when multisampling is activated.
create_resolved_color_texture(a, screen_size, msaa, ssaa) ==
    LET attachment_type ==
            IF ssaa = "Cmaa2" THEN "ColorStorageAttachment" ELSE "ColorAttachment"
    IN  IF multisampling_activated(msaa)
        THEN Some(NewAttachment(a + 1, screen_size, 1, None, attachment_type))
        ELSE None

ResolvedColorTextureCount(msaa) == IF multisampling_activated(msaa) THEN 1 ELSE 0

create_directional_shadow_texture(a, shadow_size) ==
    NewAttachment(a + 1, shadow_size, 1, None, "DepthAttachment")

\* Mutation of create_tile_light_indices_buffer: the record count is not
\* clamped to at least one.
create_tile_light_indices_buffer_unclamped(a, screen_size) ==
    LET tiles == calculate_light_tile_count(screen_size)
    IN  BufferWithCapacity(a + 1, (tiles.x * tiles.y) * SizeOfTileLightIndices)

create_tile_light_indices_buffer(a, screen_size) ==
    LET tiles == calculate_light_tile_count(screen_size)
    IN  BufferWithCapacity(a + 1, Max(tiles.x * tiles.y, 1) * SizeOfTileLightIndices)

create_point_shadow_textures(a, shadow_size) ==
    NewCubeArrayTexture(a + 1, shadow_size, NUMBER_OF_POINT_LIGHTS_WITH_SHADOWS)

create_cmaa2_bind_group(id, edges, control, candidates, indirect, heads, items, locations) ==
    [id |-> id,
     edges_textures |-> edges.id,
     control_buffer |-> control.id,
     shape_candidates_buffer |-> candidates.id,
     indirect_buffer |-> indirect.id,
     deferred_blend_item_list_heads_buffer |-> heads.id,
     deferred_blend_item_list_buffer |-> items.id,
     deferred_blend_location_list_buffer |-> locations.id]

\* Mutation of Cmaa2ListBufferSize: the estimate is allocated as it is.
Cmaa2ListBufferSizeOfEstimate(elements, element_size) == Max(elements, 1) * element_size

\* Byte size of a CMAA2 list buffer estimated to hold `elements` elements:
\* ((elements.max(1) * size_of::<T>()) as u64).min(MAX_BUFFER_SIZE)
Cmaa2ListBufferSize(elements, element_size) ==
    Min(Max(elements, 1) * element_size, MAX_BUFFER_SIZE)

\* Creates no device object (Off), one (Fxaa) or eight (Cmaa2).
create_anti_aliasing_resources(a, ssaa, screen_size) ==
    IF ssaa = "Off" THEN None
    ELSE IF ssaa = "Fxaa" THEN
        [variant |-> "Fxaa",
         color_with_luma_texture |-> NewAttachment(a + 1, screen_size, 1, None, "ColorAttachment")]
    ELSE
        LET width == screen_size.width
            height == screen_size.height
            max_shape_candidates == (width * height) \div 4
            max_deferred_blend_items == (width * height) \div 2
            max_deferred_blend_locations == (width * height + 3) \div 6
            edges == NewStorageTexture(a + 1, (width + 1) \div 2, height)
            control == BufferWithCapacity(a + 2, 4 * SizeOfU32)
            indirect == BufferWithCapacity(a + 3, SizeOfDispatchIndirectArgs)
            candidates ==
                BufferWithCapacity(a + 4, Cmaa2ListBufferSize(max_shape_candidates, SizeOfU32))
            heads ==
                BufferWithCapacity(a + 5,
                    Cmaa2ListBufferSize(((width + 1) \div 2) * ((height + 1) \div 2),
                                        SizeOfU32))
            items ==
                BufferWithCapacity(a + 6,
                    Cmaa2ListBufferSize(max_deferred_blend_items, 2 * SizeOfU32))
            locations ==
                BufferWithCapacity(a + 7,
                    Cmaa2ListBufferSize(max_deferred_blend_locations, SizeOfU32))
        IN  [variant |-> "Cmaa2",
             edges_textures |-> edges,
             control_buffer |-> control,
             shape_candidates_buffer |-> candidates,
             indirect_buffer |-> indirect,
             deferred_blend_item_list_heads_buffer |-> heads,
             deferred_blend_item_list_buffer |-> items,
             deferred_blend_location_list_buffer |-> locations,
             bind_group |->
                 create_cmaa2_bind_group(a + 8, edges, control, candidates, indirect,
                                         heads, items, locations)]

AntiAliasingResourceCount(ssaa) ==
    IF ssaa = "Off" THEN 0 ELSE IF ssaa = "Fxaa" THEN 1 ELSE 8

create_global_bind_group(id, uniforms, nearest, linear, texture) ==
    [id |-> id,
     global_uniforms_buffer |-> uniforms.id,
     nearest_sampler |-> nearest.id,
     linear_sampler |-> linear.id,
     texture_sampler |-> texture.id]

create_light_culling_bind_group(id, point_lights, tile_count, tile_indices) ==
    [id |-> id,
     point_light_data_buffer |-> point_lights.id,
     tile_light_count_texture |-> tile_count.id,
     tile_light_indices_buffer |-> tile_indices.id]

create_forward_bind_group(id, directional, point_lights, tile_count, tile_indices, directional_shadow, point_shadow) ==
    [id |-> id,
     directional_light_uniforms_buffer |-> directional.id,
     point_light_data_buffer |-> point_lights.id,
     tile_light_count_texture |-> tile_count.id,
     tile_light_indices_buffer |-> tile_indices.id,
     directional_shadow_map_texture |-> directional_shadow.id,
     point_shadow_map_textures |-> point_shadow.id]

create_debug_bind_group(id, debug, picker, directional_shadow, tile_count, point_shadow) ==
    [id |-> id,
     debug_uniforms_buffer |-> debug.id,
     picker_buffer_texture |-> picker.id,
     directional_shadow_map_texture |-> directional_shadow.id,
     tile_light_count_texture |-> tile_count.id,
     point_shadow_map_textures |-> point_shadow.id]

----------------------------------------------------------------------------
(* State of GlobalContext (the debug feature is enabled). *)

VARIABLES
    msaa,
    screen_space_anti_aliasing,
    forward_depth_texture,
    picker_buffer_texture,
    picker_depth_texture,
    forward_color_texture,
    resolved_color_texture,
    interface_buffer_texture,
    directional_shadow_map_texture,
    point_shadow_map_textures,
    tile_light_count_texture,
    global_uniforms_buffer,
    directional_light_uniforms_buffer,
    point_light_data_buffer,
    debug_uniforms_buffer,
    picker_value_buffer,
    tile_light_indices_buffer,
    anti_aliasing_resources,
    nearest_sampler,
    linear_sampler,
    texture_sampler,
    global_bind_group,
    light_culling_bind_group,
    forward_bind_group,
    debug_bind_group,
    screen_size,
    directional_shadow_size,
    point_shadow_size,
    global_uniforms,
    directional_light_uniforms,
    point_light_data,
    \* Number of objects the device has created so far.
    allocated,
    \* The operation that produced the current state, with the arguments and
    \* locals the properties refer to.
    op,
    \* Number of settings updates and of uploads since construction.
    updates,
    frames,
    \* Application of a free function: its argument, its result and whether
    \* it has been applied.
    fn_arg,
    fn_result,
    fn_pc,
    \* The RenderInstruction of the current frame and the position of the
    \* point shadow pass in the frame.
    instructions,
    frame_pc,
    \* PointShadowRenderPassContext; `pass` and `previous_pass` are the last two
    \* render passes create_pass has begun in the frame.
    uniforms_buffer,
    point_shadow_bind_group,
    uniforms_data,
    buffer_data,
    aligned_size,
    pass,
    previous_pass,
    \* Number of objects the device has created for the passes.
    pass_allocated,
    \* The model instructions and model batches of the frame's
    \* RenderInstruction and the position of the forward model drawer in the
    \* frame.
    models,
    model_batches,
    forward_pc,
    \* Capabilities of the device.
    capabilities,
    \* ForwardModelDrawer.
    multi_draw_indirect_support,
    instance_data_buffer,
    instance_index_vertex_buffer,
    command_buffer,
    forward_model_bind_group,
    pipeline,
    wireframe_pipeline,
    instance_data,
    instance_indices,
    draw_commands,
    \* Number of objects the device has created for the drawers.
    drawer_allocated,
    \* Number of elements the last upload of the drawer wrote to each buffer.
    uploaded,
    \* The last call of draw: draw_data.show_wireframe, the pipeline it bound,
    \* the draw calls it recorded in the render pass, and the draws the device
    \* executes for them.
    show_wireframe,
    bound_pipeline,
    draw_calls,
    submitted,
    \* The static LAYOUT of each bind group layout function, the calls of
    \* these functions in progress on each thread, and the number of calls
    \* made by the threads.
    LAYOUT,
    layout_callers,
    layout_calls,
    \* The packet list and the flags a PacketView shares with the writer of
    \* the list, the PacketView (state.elements, cached_packet_count), the
    \* value its last update returned and whether update was the last call.
    packets,
    cleared,
    update,
    packet_elements,
    cached_packet_count,
    packet_change_event,
    packet_pc,
    \* The character list, the move request and the changed flag a
    \* CharacterPreview shares with their writer, the CharacterPreview (slot,
    \* state.elements), the action its last left_click returned, and whether
    \* the shared values have changed since the preview was built.
    characters,
    move_request,
    changed,
    slot,
    preview_elements,
    click_action,
    preview_pc,
    \* SmoothedValue, and its last call with the value of current before it.
    current,
    desired,
    threshhold,
    speed,
    smoothed_op

settings == <<msaa, screen_space_anti_aliasing>>

forward_textures == <<forward_color_texture, forward_depth_texture, resolved_color_texture>>

screen_textures ==
    <<picker_buffer_texture, picker_depth_texture, interface_buffer_texture,
      tile_light_count_texture, tile_light_indices_buffer, screen_size>>

shadow_textures ==
    <<directional_shadow_map_texture, point_shadow_map_textures, directional_shadow_size,
      point_shadow_size>>

fixed_buffers ==
    <<global_uniforms_buffer, directional_light_uniforms_buffer, debug_uniforms_buffer,
      picker_value_buffer>>

samplers == <<nearest_sampler, linear_sampler, texture_sampler>>

bind_groups == <<global_bind_group, light_culling_bind_group, forward_bind_group, debug_bind_group>>

staged == <<global_uniforms, directional_light_uniforms, point_light_data>>

global_context ==
    <<settings, forward_textures, screen_textures, shadow_textures, fixed_buffers,
      point_light_data_buffer, anti_aliasing_resources, samplers, bind_groups, staged,
      allocated, op, updates, frames>>

function_application == <<fn_arg, fn_result, fn_pc>>

frame == <<instructions, frame_pc>>

point_shadow_context ==
    <<uniforms_buffer, point_shadow_bind_group, uniforms_data, buffer_data, aligned_size>>

point_shadow_passes == <<pass, previous_pass>>

point_shadow_pass == <<frame, point_shadow_context, point_shadow_passes, pass_allocated>>

model_frame == <<models, model_batches>>

forward_model_buffers == <<instance_data_buffer, instance_index_vertex_buffer, command_buffer>>

forward_model_pipelines == <<pipeline, wireframe_pipeline>>

forward_model_staged == <<instance_data, instance_indices, draw_commands>>

forward_model_draw == <<show_wireframe, bound_pipeline, draw_calls, submitted>>

forward_model_drawer ==
    <<model_frame, forward_pc, capabilities, multi_draw_indirect_support,
      forward_model_buffers, forward_model_bind_group, forward_model_pipelines,
      forward_model_staged, drawer_allocated, uploaded, forward_model_draw>>

packet_view ==
    <<packets, cleared, update, packet_elements, cached_packet_count, packet_change_event,
      packet_pc>>

\* The interface elements and the camera values.
character_preview ==
    <<characters, move_request, changed, slot, preview_elements, click_action, preview_pc>>

smoothed_value == <<current, desired, threshhold, speed, smoothed_op>>

interface_and_camera == <<packet_view, character_preview, smoothed_value>>

\* The state outside of GlobalContext, of the point shadow pass, of the
\* function application and of the forward model drawer.
outside_global_context ==
    <<function_application, point_shadow_pass, forward_model_drawer, interface_and_camera>>

outside_point_shadow == <<function_application, forward_model_drawer, interface_and_camera>>

bind_group_layouts == <<LAYOUT, layout_callers, layout_calls>>

outside_function_application ==
    <<point_shadow_pass, forward_model_drawer, bind_group_layouts, interface_and_camera>>

outside_forward_model_drawer ==
    <<function_application, point_shadow_pass, bind_group_layouts, interface_and_camera>>

outside_bind_group_layouts ==
    <<function_application, point_shadow_pass, forward_model_drawer, interface_and_camera>>

\* The state outside of the interface elements and the camera values.
outside_interface_and_camera ==
    <<global_context, function_application, point_shadow_pass, forward_model_drawer,
      bind_group_layouts>>

outside_packet_view == <<outside_interface_and_camera, character_preview, smoothed_value>>

outside_character_preview == <<outside_interface_and_camera, packet_view, smoothed_value>>

outside_smoothed_value == <<outside_interface_and_camera, packet_view, character_preview>>

vars == <<global_context, outside_global_context, bind_group_layouts>>

----------------------------------------------------------------------------
(* Bind group layouts: each layout function holds a
   `static LAYOUT: OnceLock<BindGroupLayout>` and returns
   LAYOUT.get_or_init(|| device.create_bind_group_layout(..)). *)

LayoutRoles ==
    { "global", "light_culling", "forward", "cmaa2", "cmaa2_output", "debug", "point_shadow" }

LayoutThreads == { 1, 2 }

MaxLayoutCalls == 4

\* OnceLock::new
Uninitialized == [once |-> "incomplete", value |-> None, created |-> 0]

\* The layout the `number`-th run of the constructor of `role` creates.
create_bind_group_layout(role, number) == [role |-> role, number |-> number]

\* Mutation of MayRunConstructor: a caller that finds no value runs the
\* constructor, whether or not another caller is running it.
MayRunConstructorUnlessComplete(cell) == cell.once # "complete"

\* get_or_init runs the closure in the caller that finds the cell
\* incomplete; a caller that finds the closure running waits for its value.
MayRunConstructor(cell) == cell.once = "incomplete"

\* The cell once the running closure has returned.
Completed(cell, role) ==
    [once |-> "complete",
     value |-> Some(create_bind_group_layout(role, cell.created + 1)),
     created |-> cell.created + 1]

\* get_or_init on one thread, from the call to the return.
GetOrInit(cell, role) == IF MayRunConstructor(cell) THEN Completed(cell, role) ELSE cell

NoLayoutCall == [pc |-> "idle", role |-> "global", first |-> FALSE, result |-> None]

\* The bind groups of a handler are created by one thread, one after the
\* other; each creation calls the layout function of its role.
GetOrInitLayouts(roles) ==
    /\ LAYOUT' =
           [role \in LayoutRoles |->
               IF role \in roles THEN GetOrInit(LAYOUT[role], role) ELSE LAYOUT[role]]
    /\ UNCHANGED <<layout_callers, layout_calls>>

\* create_anti_aliasing_resources creates the cmaa2 bind group for Cmaa2.
Cmaa2LayoutRoles(ssaa) == IF ssaa = "Cmaa2" THEN { "cmaa2" } ELSE { }

\* The bind groups GlobalContext::upload and GlobalContext::new create.
RebuiltLayoutRoles == { "global", "light_culling", "forward", "debug" }

\* PointShadowRenderPassContext::bind_group_layout
PointShadowLayoutRoles == { "global", "point_shadow" }

\* The cells after GlobalContext::new and PointShadowRenderPassContext::new.
ConstructedLayouts(new_ssaa) ==
    LET roles == RebuiltLayoutRoles \cup Cmaa2LayoutRoles(new_ssaa) \cup PointShadowLayoutRoles
    IN  /\ LAYOUT =
               [role \in LayoutRoles |->
                   IF role \in roles THEN GetOrInit(Uninitialized, role) ELSE Uninitialized]
        /\ layout_callers = [thread \in LayoutThreads |-> NoLayoutCall]
        /\ layout_calls = 0

\* A thread calls the layout function of `role`.
CallBindGroupLayout(thread, role) ==
    /\ layout_callers[thread].pc \in { "idle", "returned" }
    /\ layout_calls < MaxLayoutCalls
    /\ layout_callers' =
           [layout_callers EXCEPT ![thread] =
               [pc |-> "get_or_init", role |-> role,
                first |-> LAYOUT[role].once # "complete", result |-> None]]
    /\ layout_calls' = layout_calls + 1
    /\ UNCHANGED LAYOUT
    /\ UNCHANGED <<global_context, outside_global_context>>

\* get_or_init finds the value and returns it.
GetLayout(thread) ==
    LET call == layout_callers[thread]
    IN  /\ call.pc = "get_or_init"
        /\ LAYOUT[call.role].once = "complete"
        /\ layout_callers' =
               [layout_callers EXCEPT ![thread] =
                   [call EXCEPT !.pc = "returned", !.result = LAYOUT[call.role].value]]
        /\ UNCHANGED <<LAYOUT, layout_calls>>
        /\ UNCHANGED <<global_context, outside_global_context>>

\* get_or_init starts the closure.
RunConstructor(thread) ==
    LET call == layout_callers[thread]
    IN  /\ call.pc = "get_or_init"
        /\ MayRunConstructor(LAYOUT[call.role])
        /\ LAYOUT' = [LAYOUT EXCEPT ![call.role].once = "running"]
        /\ layout_callers' = [layout_callers EXCEPT ![thread].pc = "constructing"]
        /\ UNCHANGED layout_calls
        /\ UNCHANGED <<global_context, outside_global_context>>

\* The closure returns the layout the device created; get_or_init stores and
\* returns it.
StoreLayout(thread) ==
    LET call == layout_callers[thread]
        cell == Completed(LAYOUT[call.role], call.role)
    IN  /\ call.pc = "constructing"
        /\ LAYOUT' = [LAYOUT EXCEPT ![call.role] = cell]
        /\ layout_callers' =
               [layout_callers EXCEPT ![thread] =
                   [call EXCEPT !.pc = "returned", !.result = cell.value]]
        /\ UNCHANGED layout_calls
        /\ UNCHANGED <<global_context, outside_global_context>>

\* GlobalContext::get_color_texture:
\* resolved_color_texture.as_ref().unwrap_or(&forward_color_texture)
get_color_texture ==
    IF resolved_color_texture.variant = "Some"
    THEN resolved_color_texture.value
    ELSE forward_color_texture

NoArgument == [none |-> TRUE]

Operation(name, argument) ==
    [name |-> name, argument |-> argument, recreated |-> FALSE, written |-> FALSE]

----------------------------------------------------------------------------
(* GlobalContext::new *)

New(new_msaa, new_ssaa, new_screen_size, shadow_detail, sampler_type) ==
    LET dsize == ScreenSize(directional_shadow_resolution(shadow_detail),
                            directional_shadow_resolution(shadow_detail))
        psize == ScreenSize(point_shadow_resolution(shadow_detail),
                            point_shadow_resolution(shadow_detail))
        textures == create_screen_size_textures(0, new_screen_size, new_msaa, new_ssaa)
        a1 == ScreenSizeTextureCount
        directional_shadow == create_directional_shadow_texture(a1, dsize)
        point_shadow == create_point_shadow_textures(a1 + 1, psize)
        resolved == create_resolved_color_texture(a1 + 2, new_screen_size, new_msaa, new_ssaa)
        a2 == a1 + 2 + ResolvedColorTextureCount(new_msaa)
        picker_value == BufferWithCapacity(a2 + 1, SizeOfPickerValue)
        uniforms == BufferWithCapacity(a2 + 2, SizeOfGlobalUniforms)
        directional == BufferWithCapacity(a2 + 3, SizeOfDirectionalLightUniforms)
        debug == BufferWithCapacity(a2 + 4, SizeOfDebugUniforms)
        point_lights ==
            BufferWithCapacity(a2 + 5, InitialPointLightCapacity * SizeOfPointLightData)
        tile_indices == create_tile_light_indices_buffer(a2 + 5, new_screen_size)
        nearest == CreateNewSampler(a2 + 7, "Nearest")
        linear == CreateNewSampler(a2 + 8, "Linear")
        texture == CreateNewSampler(a2 + 9, sampler_type)
        aa == create_anti_aliasing_resources(a2 + 9, new_ssaa, new_screen_size)
        a3 == a2 + 9 + AntiAliasingResourceCount(new_ssaa)
    IN  /\ msaa = new_msaa
        /\ screen_space_anti_aliasing = new_ssaa
        /\ forward_depth_texture = textures.forward_depth_texture
        /\ picker_buffer_texture = textures.picker_buffer_texture
        /\ picker_depth_texture = textures.picker_depth_texture
        /\ forward_color_texture = textures.forward_color_texture
        /\ resolved_color_texture = resolved
        /\ interface_buffer_texture = textures.interface_buffer_texture
        /\ directional_shadow_map_texture = directional_shadow
        /\ point_shadow_map_textures = point_shadow
        /\ tile_light_count_texture = textures.tile_light_count_texture
        /\ global_uniforms_buffer = uniforms
        /\ directional_light_uniforms_buffer = directional
        /\ point_light_data_buffer = point_lights
        /\ debug_uniforms_buffer = debug
        /\ picker_value_buffer = picker_value
        /\ tile_light_indices_buffer = tile_indices
        /\ anti_aliasing_resources = aa
        /\ nearest_sampler = nearest
        /\ linear_sampler = linear
        /\ texture_sampler = texture
        /\ global_bind_group = create_global_bind_group(a3 + 1, uniforms, nearest, linear, texture)
        /\ light_culling_bind_group =
               create_light_culling_bind_group(a3 + 2, point_lights,
                   textures.tile_light_count_texture, tile_indices)
        /\ forward_bind_group =
               create_forward_bind_group(a3 + 3, directional, point_lights,
                   textures.tile_light_count_texture, tile_indices, directional_shadow,
                   point_shadow)
        /\ debug_bind_group =
               create_debug_bind_group(a3 + 4, debug, textures.picker_buffer_texture,
                   directional_shadow, textures.tile_light_count_texture, point_shadow)
        /\ screen_size = new_screen_size
        /\ directional_shadow_size = dsize
        /\ point_shadow_size = psize
        /\ global_uniforms =
               [ambient_color |-> <<0, 0, 0, 0>>,
                screen_size |-> ScreenSize(0, 0),
                point_light_count |-> 0]
        /\ directional_light_uniforms =
               [color |-> <<0, 0, 0, 0>>, direction |-> <<"zero", 0>>]
        /\ point_light_data = << >>
        /\ allocated = a3 + 4
        /\ op = Operation("new", new_screen_size)
        /\ updates = 0
        /\ frames = 0
        /\ ConstructedLayouts(new_ssaa)

NoFunctionApplication ==
    /\ fn_arg = ScreenSize(0, 0)
    /\ fn_result = [x |-> 0, y |-> 0]
    /\ fn_pc = "idle"

----------------------------------------------------------------------------
(* PointShadowRenderPassContext (passes/point_shadow/mod.rs). *)

NUMBER_FACES == 6

\* size_of::<PassUniforms>(): 16 + 4 + 1 + 3 words of four bytes.
SizeOfPassUniforms == 96

\* Values of Limits::min_uniform_buffer_offset_alignment, a power of two.
UniformAlignments == { 32, 64, 256 }

PassDatas ==
    [shadow_caster_index : 0..(NUMBER_OF_POINT_LIGHTS_WITH_SHADOWS - 1),
     face_index : 0..(NUMBER_FACES - 1)]

\* (size_of::<PassUniforms>() + uniform_alignment - 1) & !(uniform_alignment - 1);
\* for a power of two the mask clears the remainder of the division.
compute_aligned_size(uniform_alignment) ==
    ((SizeOfPassUniforms + uniform_alignment - 1) \div uniform_alignment) * uniform_alignment

\* Mutation of dynamic_offset: a light is given five records instead of six.
dynamic_offset_of_five_faces(pass_data, size) ==
    (pass_data.shadow_caster_index * (NUMBER_FACES - 1) + pass_data.face_index) * size

\* The offsets stay far below 2^32, so the `as u32` cast keeps them.
dynamic_offset(pass_data, size) ==
    (pass_data.shadow_caster_index * NUMBER_FACES + pass_data.face_index) * size

\* A byte buffer as the set of the records readable in it: a record written
\* at `start` occupies [start, start + SizeOfPassUniforms).
RangesOverlap(a, b) == a < b + SizeOfPassUniforms /\ b < a + SizeOfPassUniforms

\* Mutation of CopyRecord: a record already present at `start` is kept.
CopyRecordKeepingPresent(data, start, uniform) ==
    IF \E r \in data : r.start = start THEN data
    ELSE data \cup { [start |-> start, uniform |-> uniform] }

\* buffer_data[start..end].copy_from_slice(bytes_of(uniform)): the bytes of
\* every record the range overlaps are overwritten.
CopyRecord(data, start, uniform) ==
    { r \in data : ~RangesOverlap(r.start, start) } \cup { [start |-> start, uniform |-> uniform] }

ZeroedUniform ==
    [caster |-> <<"none", 0>>, face_index |-> 0, instruction |-> RenderInstruction(0, 0)]

\* The PassUniforms a shader reads at `offset`: the record written there, or
\* other bytes when no intact record starts at `offset`.
UniformAt(data, offset) ==
    IF \E r \in data : r.start = offset
    THEN (CHOOSE r \in data : r.start = offset).uniform
    ELSE ZeroedUniform

\* The uniforms of all faces of all shadow casters of the instruction, caster
\* by caster: the matrix of the face and the position of the caster, and the
\* animation timer of the instruction; `instruction` stands for the values
\* taken from it.
PassUniformsOf(instruction) ==
    [k \in 1..(instruction.casters * NUMBER_FACES) |->
        [caster |-> <<"point_light_shadow_caster", (k - 1) \div NUMBER_FACES>>,
         face_index |-> (k - 1) % NUMBER_FACES,
         instruction |-> instruction]]

RECURSIVE SerializeUniforms(_, _, _, _)
SerializeUniforms(data, uniforms, index, size) ==
    IF index >= Len(uniforms) THEN data
    ELSE SerializeUniforms(CopyRecord(data, index * size, uniforms[index + 1]), uniforms,
                           index + 1, size)

create_point_shadow_bind_group(id, buffer) == [id |-> id, uniforms_buffer |-> buffer.id]

NoPass == [variant |-> "None"]

\* Mutation of PointShadowNew: the buffer is sized for records without
\* padding.
PointShadowNewWithUnpaddedBuffer(uniform_alignment) ==
    LET size == compute_aligned_size(uniform_alignment)
        buffer_size == SizeOfPassUniforms * NUMBER_OF_POINT_LIGHTS_WITH_SHADOWS * NUMBER_FACES
        buffer == [id |-> 1, capacity |-> buffer_size, contents |-> {}]
    IN  /\ aligned_size = size
        /\ uniforms_buffer = buffer
        /\ point_shadow_bind_group = create_point_shadow_bind_group(2, buffer)
        /\ uniforms_data = << >>
        /\ buffer_data = {}
        /\ pass = NoPass
        /\ previous_pass = NoPass
        /\ pass_allocated = 2

\* PointShadowRenderPassContext::new
PointShadowNew(uniform_alignment) ==
    LET size == compute_aligned_size(uniform_alignment)
        buffer_size == size * NUMBER_OF_POINT_LIGHTS_WITH_SHADOWS * NUMBER_FACES
        buffer == [id |-> 1, capacity |-> buffer_size, contents |-> {}]
    IN  /\ aligned_size = size
        /\ uniforms_buffer = buffer
        /\ point_shadow_bind_group = create_point_shadow_bind_group(2, buffer)
        /\ uniforms_data = << >>
        /\ buffer_data = {}
        /\ pass = NoPass
        /\ previous_pass = NoPass
        /\ pass_allocated = 2

NoFrame ==
    /\ instructions = RenderInstruction(0, 0)
    /\ frame_pc = "idle"

\* The producer hands the frame's RenderInstruction to the renderer.
BeginFrame ==
    /\ frame_pc \in { "idle", "uploaded" }
    /\ instructions' \in LightInstructions
    /\ frame_pc' = "begin"
    /\ pass' = NoPass
    /\ previous_pass' = NoPass
    /\ UNCHANGED <<global_context, outside_point_shadow, point_shadow_context, pass_allocated>>
    /\ UNCHANGED bind_group_layouts

\* buffer_data.len(): vec![0; buffer_size].into_boxed_slice()
BufferDataLen == aligned_size * NUMBER_OF_POINT_LIGHTS_WITH_SHADOWS * NUMBER_FACES

\* The number of leading records of `uniforms` whose range start..end lies
\* inside buffer_data; slicing the range of the next record panics.
CopiedRecords(uniforms) ==
    Min(Len(uniforms),
        IF BufferDataLen < SizeOfPassUniforms
        THEN 0
        ELSE (BufferDataLen - SizeOfPassUniforms) \div aligned_size + 1)

\* Prepare for PointShadowRenderPassContext, after GlobalContext has prepared
\* the same instruction.  The loop over uniforms_data panics at the first
\* record whose range is not inside buffer_data.
PointShadowPrepare ==
    LET uniforms == PassUniformsOf(instructions)
        copied == CopiedRecords(uniforms)
    IN  /\ frame_pc = "begin"
        /\ op.name = "prepare"
        /\ op.argument = instructions
        /\ uniforms_data' = uniforms
        /\ buffer_data' =
               SerializeUniforms(buffer_data, SubSeq(uniforms, 1, copied), 0, aligned_size)
        /\ frame_pc' = IF copied = Len(uniforms) THEN "prepared" ELSE "panicked"
        /\ UNCHANGED bind_group_layouts
        /\ UNCHANGED <<global_context, outside_point_shadow, instructions, uniforms_buffer,
                       point_shadow_bind_group, aligned_size, point_shadow_passes,
                       pass_allocated>>

PointShadowUpload ==
    LET size == aligned_size * NUMBER_OF_POINT_LIGHTS_WITH_SHADOWS * NUMBER_FACES
        recreated == WriteRecreates(uniforms_buffer, size)
        written == BufferWrite(uniforms_buffer, size, pass_allocated + 1, size)
        buffer == [id |-> written.id, capacity |-> written.capacity, contents |-> buffer_data]
    IN  /\ frame_pc = "prepared"
        /\ uniforms_buffer' = buffer
        /\ IF recreated
           THEN /\ point_shadow_bind_group' =
                       create_point_shadow_bind_group(pass_allocated + 2, buffer)
                /\ pass_allocated' = pass_allocated + 2
           ELSE UNCHANGED <<point_shadow_bind_group, pass_allocated>>
        /\ frame_pc' = "uploaded"
        /\ GetOrInitLayouts(IF recreated THEN PointShadowLayoutRoles ELSE { })
        /\ UNCHANGED <<global_context, outside_point_shadow, instructions, uniforms_data,
                       buffer_data, aligned_size, point_shadow_passes>>

\* point_shadow_map_textures[cube_slot].get_texture_face_view(face): the view of
\* one face of one cube of the array.
get_texture_face_view(texture, cube_slot, face) ==
    [texture |-> texture.id, slot |-> cube_slot, face |-> face]

\* Mutation of create_pass: the pass sets the size of the point shadow maps
\* of the context it borrows.
create_pass_resizing_point_shadow_maps(pass_data) ==
    LET offset == dynamic_offset(pass_data, aligned_size)
    IN  /\ frame_pc = "uploaded"
        /\ pass' =
               [variant |-> "Some",
                pass_data |-> pass_data,
                dynamic_offset |-> offset,
                color_attachments |-> << >>,
                view |-> get_texture_face_view(point_shadow_map_textures,
                             pass_data.shadow_caster_index, pass_data.face_index),
                depth_ops |-> [load |-> <<"Clear", 1>>, store |-> "Store"],
                viewport |-> [x |-> 0, y |-> 0, width |-> point_shadow_size.width,
                              height |-> point_shadow_size.height],
                global_bind_group |-> global_bind_group.id,
                bind_group |-> point_shadow_bind_group.id,
                uniforms |-> UniformAt(uniforms_buffer.contents, offset)]
        /\ previous_pass' = pass
        /\ point_shadow_size' = ScreenSize(0, 0)
        /\ UNCHANGED bind_group_layouts
        /\ UNCHANGED <<settings, forward_textures, screen_textures,
                       directional_shadow_map_texture, point_shadow_map_textures,
                       directional_shadow_size, fixed_buffers, point_light_data_buffer,
                       anti_aliasing_resources, samplers, bind_groups, staged, allocated, op,
                       updates, frames>>
        /\ UNCHANGED <<outside_point_shadow, frame, point_shadow_context, pass_allocated>>

\* create_pass: the render pass targets the face view of the cube array
\* slot of the caster and binds the uniforms at the dynamic offset.
create_pass(pass_data) ==
    LET offset == dynamic_offset(pass_data, aligned_size)
    IN  /\ frame_pc = "uploaded"
        /\ pass' =
               [variant |-> "Some",
                pass_data |-> pass_data,
                dynamic_offset |-> offset,
                color_attachments |-> << >>,
                view |-> get_texture_face_view(point_shadow_map_textures,
                             pass_data.shadow_caster_index, pass_data.face_index),
                depth_ops |-> [load |-> <<"Clear", 1>>, store |-> "Store"],
                viewport |-> [x |-> 0, y |-> 0, width |-> point_shadow_size.width,
                              height |-> point_shadow_size.height],
                global_bind_group |-> global_bind_group.id,
                bind_group |-> point_shadow_bind_group.id,
                uniforms |-> UniformAt(uniforms_buffer.contents, offset)]
        /\ previous_pass' = pass
        /\ UNCHANGED bind_group_layouts
        /\ UNCHANGED <<global_context, outside_point_shadow, frame, point_shadow_context,
                       pass_allocated>>

----------------------------------------------------------------------------
(* ForwardModelDrawer (passes/forward/model.rs). *)

INITIAL_INSTRUCTION_SIZE == 256

\* size_of::<InstanceData>(): two 4x4 matrices of f32.
SizeOfInstanceData == 128

\* size_of::<DrawIndirectArgs>(): four u32.
SizeOfDrawIndirectArgs == 16

ModelInstruction(model, vertex_offset, vertex_count) ==
    [model_matrix |-> model, vertex_offset |-> vertex_offset, vertex_count |-> vertex_count]

ModelBatch(offset, count) == [offset |-> offset, count |-> count]

\* The model instructions and batches of a frame.  Every batch is a
\* contiguous run of the instruction list, as its producers build it; the
\* largest list has one instruction more than the drawer's buffers hold
\* initially.
ModelFrames ==
    { [models |-> << >>, model_batches |-> << >>],
      [models |-> << ModelInstruction("a", 0, 6) >>,
       model_batches |-> << ModelBatch(0, 1) >>],
      [models |-> << ModelInstruction("a", 0, 6), ModelInstruction("b", 6, 3),
                     ModelInstruction("c", 9, 12) >>,
       model_batches |-> << ModelBatch(0, 2), ModelBatch(2, 0), ModelBatch(2, 1) >>],
      [models |-> << ModelInstruction("b", 6, 3), ModelInstruction("a", 0, 6) >>,
       model_batches |-> << ModelBatch(1, 1), ModelBatch(0, 1) >>],
      [models |-> [i \in 1..(INITIAL_INSTRUCTION_SIZE + 1) |-> ModelInstruction("d", 0, 3)],
       model_batches |-> << ModelBatch(0, INITIAL_INSTRUCTION_SIZE + 1) >>] }

CapabilitiesValues == [multidraw_indirect : BOOLEAN, polygon_mode_line : BOOLEAN]

\* Capabilities::supports_multidraw_indirect
supports_multidraw_indirect(device_capabilities) == device_capabilities.multidraw_indirect

\* Capabilities::supports_polygon_mode_line
supports_polygon_mode_line(device_capabilities) == device_capabilities.polygon_mode_line

\* Mutation of InitialMultiDrawIndirectSupport: the drawer assumes the support.
AssumedMultiDrawIndirectSupport(device_capabilities) == TRUE

\* The value new gives the field multi_draw_indirect_support.
InitialMultiDrawIndirectSupport(device_capabilities) ==
    supports_multidraw_indirect(device_capabilities)

create_forward_model_bind_group(id, buffer) == [id |-> id, instance_data_buffer |-> buffer.id]

create_pipeline(id, shader_module, polygon_mode) ==
    [id |-> id, shader_module |-> shader_module, polygon_mode |-> polygon_mode]

NoDraw ==
    /\ show_wireframe = FALSE
    /\ bound_pipeline = None
    /\ draw_calls = << >>
    /\ submitted = << >>

\* ForwardModelDrawer::new; the device objects are the three buffers, the
\* bind group layout, the bind group and the two pipelines.
ForwardModelDrawerNew(device_capabilities) ==
    LET instances ==
            [id |-> 1, capacity |-> SizeOfInstanceData * INITIAL_INSTRUCTION_SIZE,
             contents |-> << >>]
        indices ==
            [id |-> 2, capacity |-> SizeOfU32 * INITIAL_INSTRUCTION_SIZE, contents |-> << >>]
        commands ==
            [id |-> 3, capacity |-> SizeOfDrawIndirectArgs * INITIAL_INSTRUCTION_SIZE,
             contents |-> << >>]
    IN  /\ capabilities = device_capabilities
        /\ multi_draw_indirect_support = InitialMultiDrawIndirectSupport(device_capabilities)
        /\ instance_data_buffer = instances
        /\ instance_index_vertex_buffer = indices
        /\ command_buffer = commands
        /\ forward_model_bind_group = create_forward_model_bind_group(5, instances)
        /\ wireframe_pipeline =
               IF supports_polygon_mode_line(device_capabilities)
               THEN create_pipeline(6, "model_wireframe", "Line")
               ELSE create_pipeline(6, "model_wireframe", "Fill")
        /\ pipeline = create_pipeline(7, "model", "Fill")
        /\ instance_data = << >>
        /\ instance_indices = << >>
        /\ draw_commands = << >>
        /\ drawer_allocated = 7
        /\ uploaded = [instance_data |-> 0, instance_indices |-> 0, draw_commands |-> 0]
        /\ NoDraw

NoModelFrame ==
    /\ models = << >>
    /\ model_batches = << >>
    /\ forward_pc = "idle"

\* The producer hands the frame's model instructions and batches to the
\* renderer.
BeginModelFrame ==
    /\ forward_pc \in { "idle", "uploaded", "drawn" }
    /\ \E model_instructions \in ModelFrames :
           /\ models' = model_instructions.models
           /\ model_batches' = model_instructions.model_batches
    /\ forward_pc' = "begin"
    /\ UNCHANGED <<capabilities, multi_draw_indirect_support, forward_model_buffers,
                   forward_model_bind_group, forward_model_pipelines, forward_model_staged,
                   drawer_allocated, uploaded, forward_model_draw>>
    /\ UNCHANGED <<global_context, outside_forward_model_drawer>>

\* Mutation of DrawCommand: every command draws instance 0.
DrawCommandOfFirstInstance(instruction, instance_index) ==
    [vertex_count |-> instruction.vertex_count,
     instance_count |-> 1,
     first_vertex |-> instruction.vertex_offset,
     first_instance |-> 0]

\* The DrawIndirectArgs prepare pushes for an instruction.
DrawCommand(instruction, instance_index) ==
    [vertex_count |-> instruction.vertex_count,
     instance_count |-> 1,
     first_vertex |-> instruction.vertex_offset,
     first_instance |-> instance_index]

\* The InstanceData prepare pushes for an instruction: the model matrix and
\* the transpose of its inverse.
InstanceDataOf(instruction) ==
    [world |-> instruction.model_matrix,
     inv_world |-> <<"inverse_transpose", instruction.model_matrix>>]

\* Mutation of PrepareReturnsEarly: a list of one instruction is skipped as
\* well.
PrepareReturnsEarlyOnShortLists(draw_count) == draw_count <= 1

\* `if draw_count == 0 { return; }`
PrepareReturnsEarly(draw_count) == draw_count = 0

\* Prepare for ForwardModelDrawer.
ForwardModelPrepare ==
    /\ forward_pc = "begin"
    /\ IF PrepareReturnsEarly(Len(models))
       THEN UNCHANGED forward_model_staged
       ELSE /\ instance_data' = [i \in 1..Len(models) |-> InstanceDataOf(models[i])]
            /\ instance_indices' = [i \in 1..Len(models) |-> i - 1]
            /\ draw_commands' = [i \in 1..Len(models) |-> DrawCommand(models[i], i - 1)]
    /\ forward_pc' = "prepared"
    /\ UNCHANGED <<model_frame, capabilities, multi_draw_indirect_support,
                   forward_model_buffers, forward_model_bind_group, forward_model_pipelines,
                   drawer_allocated, uploaded, forward_model_draw>>
    /\ UNCHANGED <<global_context, outside_forward_model_drawer>>

\* The contents of a buffer after `data` has been written to its start.
WrittenContents(buffer, data, recreated) ==
    IF recreated \/ Len(data) >= Len(buffer.contents) THEN data
    ELSE [i \in 1..Len(buffer.contents) |->
              IF i <= Len(data) THEN data[i] ELSE buffer.contents[i]]

\* Buffer::write of `data`, elements of `element_size` bytes; a new
\* allocation gets the id `id` and the capacity `grown`.
WriteElements(buffer, data, element_size, id, grown) ==
    LET size == Len(data) * element_size
        written == BufferWrite(buffer, size, id, grown)
    IN  [id |-> written.id,
         capacity |-> written.capacity,
         contents |-> WrittenContents(buffer, data, WriteRecreates(buffer, size))]

\* The capacity a reallocation for `size` bytes chooses.
GrownCapacity(size, rounded) == IF rounded THEN NextPowerOfTwoFrom(1, size) ELSE size

\* ForwardModelDrawer::upload: the three writes do not depend on the frame's
\* instruction list; a write of no elements transfers nothing.
ForwardModelUpload(rounded) ==
    LET n(flag) == IF flag THEN 1 ELSE 0
        instances_size == Len(instance_data) * SizeOfInstanceData
        indices_size == Len(instance_indices) * SizeOfU32
        commands_size == Len(draw_commands) * SizeOfDrawIndirectArgs
        recreated == WriteRecreates(instance_data_buffer, instances_size)
        a1 == drawer_allocated + n(recreated)
        instances ==
            WriteElements(instance_data_buffer, instance_data, SizeOfInstanceData, a1,
                GrownCapacity(instances_size, rounded))
        a2 == a1 + n(WriteRecreates(instance_index_vertex_buffer, indices_size))
        indices ==
            WriteElements(instance_index_vertex_buffer, instance_indices, SizeOfU32, a2,
                GrownCapacity(indices_size, rounded))
        a3 == a2 + n(WriteRecreates(command_buffer, commands_size))
        commands ==
            WriteElements(command_buffer, draw_commands, SizeOfDrawIndirectArgs, a3,
                GrownCapacity(commands_size, rounded))
    IN  /\ forward_pc = "prepared"
        /\ instance_data_buffer' = instances
        /\ instance_index_vertex_buffer' = indices
        /\ command_buffer' = commands
        /\ uploaded' =
               [instance_data |-> Len(instance_data),
                instance_indices |-> Len(instance_indices),
                draw_commands |-> Len(draw_commands)]
        /\ IF recreated
           THEN /\ forward_model_bind_group' = create_forward_model_bind_group(a3 + 1, instances)
                /\ drawer_allocated' = a3 + 1
           ELSE /\ UNCHANGED forward_model_bind_group
                /\ drawer_allocated' = a3
        /\ forward_pc' = "uploaded"
        /\ UNCHANGED <<model_frame, capabilities, multi_draw_indirect_support,
                       forward_model_pipelines, forward_model_staged, forward_model_draw>>
        /\ UNCHANGED <<global_context, outside_forward_model_drawer>>

ZeroedDrawCommand ==
    [vertex_count |-> 0, instance_count |-> 0, first_vertex |-> 0, first_instance |-> 0]

\* The DrawIndirectArgs the device reads at element `index` of the buffer.
CommandAt(buffer, index) ==
    IF index < Len(buffer.contents) THEN buffer.contents[index + 1] ELSE ZeroedDrawCommand

\* A draw of one instance: the vertex range and the instance range.
Draw(vertex_start, vertex_end, index) ==
    [vertices |-> <<vertex_start, vertex_end>>, instances |-> <<index, index + 1>>]

\* The draws the device executes for one indirect command.
ExecutedCommand(command) ==
    [i \in 1..command.instance_count |->
        Draw(command.first_vertex, command.first_vertex + command.vertex_count,
             command.first_instance + (i - 1))]

RECURSIVE ExecutedCommands(_, _, _)
\* The draws of multi_draw_indirect(buffer, offset, count): the device
\* executes the `count` commands from element `offset` on in order.
ExecutedCommands(buffer, offset, count) ==
    IF count = 0 THEN << >>
    ELSE IF count = 1 THEN ExecutedCommand(CommandAt(buffer, offset))
    ELSE LET half == count \div 2
         IN  ExecutedCommands(buffer, offset, half)
                 \o ExecutedCommands(buffer, offset + half, count - half)

\* The draws of the per-instruction loop over draw_data.instructions[start..end].
InstructionDraws(draw_instructions, start, count) ==
    [index \in 1..count |->
        LET instruction == draw_instructions[start + index]
        IN  Draw(instruction.vertex_offset,
                 instruction.vertex_offset + instruction.vertex_count,
                 start + (index - 1))]

\* Mutation of SkipsBatch: no batch is skipped.
SkipsNoBatch(batch) == FALSE

\* `if batch.count == 0 { continue; }`
SkipsBatch(batch) == batch.count = 0

RECURSIVE DrawBatches(_, _, _, _)
\* The loop of draw over the batches from `index` on, on the path `support`
\* selects: the calls recorded in the render pass and the draws the device
\* executes for them.
DrawBatches(support, batches, draw_instructions, index) ==
    IF index > Len(batches) THEN [calls |-> << >>, draws |-> << >>]
    ELSE
        LET batch == batches[index]
            rest == DrawBatches(support, batches, draw_instructions, index + 1)
        IN  IF SkipsBatch(batch) THEN rest
            ELSE IF support
            THEN [calls |->
                      << [call |-> "multi_draw_indirect",
                          offset |-> batch.offset * SizeOfDrawIndirectArgs,
                          count |-> batch.count] >> \o rest.calls,
                  draws |->
                      ExecutedCommands(command_buffer, batch.offset, batch.count)
                          \o rest.draws]
            ELSE LET draws == InstructionDraws(draw_instructions, batch.offset, batch.count)
                 IN  [calls |->
                          [i \in 1..Len(draws) |->
                              [call |-> "draw", vertices |-> draws[i].vertices,
                               instances |-> draws[i].instances]] \o rest.calls,
                      draws |-> draws \o rest.draws]

\* Mutation of SetPipeline: the solid pipeline is bound whatever is requested.
SetSolidPipeline(requested) == Some(pipeline)

\* The pipeline draw binds for draw_data.show_wireframe = requested.
SetPipeline(requested) == Some(IF requested THEN wireframe_pipeline ELSE pipeline)

\* ForwardModelDrawer::draw with the batches and instructions of the frame
\* and draw_data.show_wireframe = requested.
ForwardModelDraw(requested) ==
    LET drawn == DrawBatches(multi_draw_indirect_support, model_batches, models, 1)
    IN  /\ forward_pc = "uploaded"
        /\ forward_pc' = "drawn"
        /\ show_wireframe' = requested
        /\ IF model_batches = << >>
           THEN /\ bound_pipeline' = None
                /\ draw_calls' = << >>
                /\ submitted' = << >>
           ELSE /\ bound_pipeline' = SetPipeline(requested)
                /\ draw_calls' = drawn.calls
                /\ submitted' = drawn.draws
        /\ UNCHANGED <<model_frame, capabilities, multi_draw_indirect_support,
                       forward_model_buffers, forward_model_bind_group,
                       forward_model_pipelines, forward_model_staged, drawer_allocated,
                       uploaded>>
        /\ UNCHANGED <<global_context, outside_forward_model_drawer>>

----------------------------------------------------------------------------
(* PacketView: the interface element that lists the packets of a shared
   packet list.  The writer of the list appends entries and clears the list;
   a clear sets the shared cleared flag. *)

\* The longest packet list.
MaxPackets == 3

\* The entries of the packet list.
PacketEntries == {"incoming", "outgoing"}

\* The packet lists of at most `longest` entries.
PacketListsUpTo(longest) == UNION {[1..n -> PacketEntries] : n \in 0..longest}

\* PacketEntry::to_element: the child element that shows an entry.
to_element(entry) == [element |-> "Expandable", display |-> entry]

\* PacketView::new: one child element per entry of the list, and the cached
\* count of the entries shown.
PacketViewNew(initial_packets, initial_cleared, initial_update) ==
    /\ packets = initial_packets
    /\ cleared = initial_cleared
    /\ update = initial_update
    /\ packet_elements = [i \in 1..Len(initial_packets) |-> to_element(initial_packets[i])]
    /\ cached_packet_count = Len(initial_packets)
    /\ packet_change_event = None
    /\ packet_pc = "new"

\* The writer appends an entry to the packet list.
AppendPacket(entry) ==
    /\ Len(packets) < MaxPackets
    /\ packets' = Append(packets, entry)
    /\ packet_pc' = "idle"
    /\ UNCHANGED <<cleared, update, packet_elements, cached_packet_count,
                   packet_change_event>>
    /\ UNCHANGED outside_packet_view

\* The writer clears the packet list and sets the cleared flag.
ClearPackets ==
    /\ packets' = <<>>
    /\ cleared' = TRUE
    /\ packet_pc' = "idle"
    /\ UNCHANGED <<update, packet_elements, cached_packet_count, packet_change_event>>
    /\ UNCHANGED outside_packet_view

\* The user switches the updating of the view on or off.
SetPacketUpdate(flag) ==
    /\ update' = flag
    /\ packet_pc' = "idle"
    /\ UNCHANGED <<packets, cleared, packet_elements, cached_packet_count,
                   packet_change_event>>
    /\ UNCHANGED outside_packet_view

\* Mutation of NewPacketElements: the elements of all entries of the list.
AllPacketElements(shown) == [i \in 1..Len(packets) |-> to_element(packets[i])]

\* The elements of the entries of the list after the first `shown` entries.
NewPacketElements(shown) ==
    [i \in 1..(Len(packets) - shown) |-> to_element(packets[shown + i])]

\* PacketView::update.
PacketViewUpdate ==
    /\ packet_pc' = "updated"
    /\ IF ~update
       THEN /\ packet_change_event' = None
            /\ UNCHANGED <<packets, cleared, update, packet_elements, cached_packet_count>>
       ELSE LET packet_count == Len(packets)
                elements_cleared == IF cleared THEN <<>> ELSE packet_elements
                count_cleared == IF cleared THEN 0 ELSE cached_packet_count
                appends == count_cleared < packet_count
            IN  /\ cleared' = FALSE
                /\ packet_elements' =
                       IF appends
                       THEN elements_cleared \o NewPacketElements(count_cleared)
                       ELSE elements_cleared
                /\ cached_packet_count' = IF appends THEN packet_count ELSE count_cleared
                /\ packet_change_event' =
                       IF cleared \/ appends THEN Some("Reresolve") ELSE None
                /\ UNCHANGED <<packets, update>>
    /\ UNCHANGED outside_packet_view

\* A PacketView of an empty packet list.
NoPacketView == PacketViewNew(<<>>, FALSE, FALSE)

----------------------------------------------------------------------------
(* CharacterPreview: the interface element of one slot of the character
   selection.  The writer of the character list and of the move request sets
   the shared changed flag with every change, and resets it when the
   interface has been updated. *)

\* The longest character list.
MaxCharacters == 2

\* The slots of the character selection.
CharacterSlots == {0, 1, 2}

CharacterNames == <<"Alberich", "Brunhild", "Cenric">>

\* CharacterInformation of the character in a slot.
CharacterInformation(number) ==
    [name |-> CharacterNames[number + 1], character_id |-> 150000 + number,
     character_number |-> number]

\* The character lists of at most MaxCharacters characters.
CharacterLists ==
    UNION {[1..n -> {CharacterInformation(number) : number \in CharacterSlots}] :
               n \in 0..MaxCharacters}

MoveRequests == {None} \cup {Some(origin_slot) : origin_slot \in CharacterSlots}

UserEvent(name, argument) == [event |-> name, argument |-> argument]

Text(text, font_size) == [element |-> "Text", text |-> text, font_size |-> font_size]

EventButton(text, event) == [element |-> "EventButton", text |-> text, event |-> event]

\* The characters of the list in the slot.
CharactersInSlot(list, number) ==
    {i \in 1..Len(list) : list[i].character_number = number}

\* CharacterPreview::get_elements.
get_elements(list, request, number) ==
    IF request # None
    THEN <<Text(IF request.value = number THEN "click to cancel" ELSE "switch", 14)>>
    ELSE IF CharactersInSlot(list, number) # {}
         THEN LET first == CHOOSE i \in CharactersInSlot(list, number) :
                               \A j \in CharactersInSlot(list, number) : i <= j
                  character_information == list[first]
              IN  <<Text(character_information.name, 18),
                    EventButton("switch slot", UserEvent("RequestSwitchCharacterSlot", number)),
                    EventButton("delete character",
                                UserEvent("DeleteCharacter",
                                          character_information.character_id))>>
         ELSE <<Text("new character", 14)>>

\* CharacterPreview::new.
CharacterPreviewNew(list, request, flag, number) ==
    /\ characters = list
    /\ move_request = request
    /\ changed = flag
    /\ slot = number
    /\ preview_elements = get_elements(list, request, number)
    /\ click_action = None
    /\ preview_pc = "built"

\* The writer replaces the character list and sets the changed flag.
SetCharacters(list) ==
    /\ list # characters
    /\ characters' = list
    /\ changed' = TRUE
    /\ click_action' = None
    /\ preview_pc' = "changed"
    /\ UNCHANGED <<move_request, slot, preview_elements>>
    /\ UNCHANGED outside_character_preview

\* The writer sets or takes back the move request and sets the changed flag.
SetMoveRequest(request) ==
    /\ request # move_request
    /\ move_request' = request
    /\ changed' = TRUE
    /\ click_action' = None
    /\ preview_pc' = "changed"
    /\ UNCHANGED <<characters, slot, preview_elements>>
    /\ UNCHANGED outside_character_preview

\* The writer resets the changed flag once the interface has been updated.
ResetChanged ==
    /\ changed
    /\ preview_pc = "built"
    /\ changed' = FALSE
    /\ click_action' = None
    /\ UNCHANGED <<characters, move_request, slot, preview_elements, preview_pc>>
    /\ UNCHANGED outside_character_preview

\* CharacterPreview::update.
CharacterPreviewUpdate ==
    /\ IF ~changed
       THEN UNCHANGED <<preview_elements, preview_pc>>
       ELSE /\ preview_elements' = get_elements(characters, move_request, slot)
            /\ preview_pc' = "built"
    /\ click_action' = None
    /\ UNCHANGED <<characters, move_request, changed, slot>>
    /\ UNCHANGED outside_character_preview

\* Mutation of has_character: the preview has an element.
has_element == Len(preview_elements) > 0

\* CharacterPreview::has_character.
has_character == Len(preview_elements) > 1

\* CharacterPreview::left_click.
CharacterPreviewLeftClick ==
    /\ click_action' =
           Some([action |-> "Event",
                 event |->
                     IF move_request # None
                     THEN IF move_request.value = slot
                          THEN UserEvent("CancelSwitchCharacterSlot", None)
                          ELSE UserEvent("SwitchCharacterSlot", slot)
                     ELSE IF has_character
                          THEN UserEvent("SelectCharacter", slot)
                          ELSE UserEvent("OpenCharacterCreationWindow", slot)])
    /\ UNCHANGED <<characters, move_request, changed, slot, preview_elements, preview_pc>>
    /\ UNCHANGED outside_character_preview

\* A CharacterPreview of the first slot of an empty character list.
NoCharacterPreview == CharacterPreviewNew(<<>>, None, FALSE, 0)

----------------------------------------------------------------------------
(* SmoothedValue: a camera value that follows its desired value.  The f32
   values are multiples of a unit; a result between two multiples is the
   multiple below it. *)

\* The largest distance of the desired value from zero.
MaxDesired == 5

\* The values SmoothedValue::new is called with.
SmoothedStarts == {-1, 0, 2}

Threshholds == {1, 2}

Speeds == {1, 3}

\* The offsets of move_desired and the frame times of update.
DesiredOffsets == {-4, -1, 1, 2}

DeltaTimes == {0, 1, 2}

\* f32::sqrt of a non-negative value.
sqrt(value) == CHOOSE root \in 0..value : root * root <= value /\ value < (root + 1) * (root + 1)

\* SmoothedValue::new.
SmoothedValueNew(value, new_threshhold, new_speed) ==
    /\ current = value
    /\ desired = value
    /\ threshhold = new_threshhold
    /\ speed = new_speed
    /\ smoothed_op = [name |-> "new", current |-> value, delta_time |-> 0]

\* Mutation of updated_current: the value moves by the whole step.
updated_current_by_whole_step(delta_time) ==
    IF desired >= current + threshhold
    THEN current + sqrt(desired - current) * speed * delta_time
    ELSE IF desired <= current - threshhold
         THEN current - sqrt(current - desired) * speed * delta_time
         ELSE current

\* The value of current after SmoothedValue::update.
updated_current(delta_time) ==
    IF desired >= current + threshhold
    THEN LET new_current == current + sqrt(desired - current) * speed * delta_time
         IN  Min(desired, new_current)
    ELSE IF desired <= current - threshhold
         THEN LET new_current == current - sqrt(current - desired) * speed * delta_time
              IN  Max(desired, new_current)
         ELSE current

\* SmoothedValue::update.
SmoothedValueUpdate(delta_time) ==
    /\ current' = updated_current(delta_time)
    /\ smoothed_op' = [name |-> "update", current |-> current, delta_time |-> delta_time]
    /\ UNCHANGED <<desired, threshhold, speed>>
    /\ UNCHANGED outside_smoothed_value

\* SmoothedValue::move_desired.
move_desired(offset) ==
    /\ -MaxDesired <= desired + offset
    /\ desired + offset <= MaxDesired
    /\ desired' = desired + offset
    /\ smoothed_op' = [name |-> "move_desired", current |-> current, delta_time |-> 0]
    /\ UNCHANGED <<current, threshhold, speed>>
    /\ UNCHANGED outside_smoothed_value

\* A SmoothedValue at rest.
NoSmoothedValue == SmoothedValueNew(0, 1, 1)

\* The interface elements and the camera values outside of the
\* specifications of their own.
InterfaceAndCameraNew == NoPacketView /\ NoCharacterPreview /\ NoSmoothedValue


\* The components outside of GlobalContext as the program constructs them.
OutsideNew ==
    /\ NoFunctionApplication
    /\ NoFrame
    /\ PointShadowNew(256)
    /\ NoModelFrame
    /\ ForwardModelDrawerNew([multidraw_indirect |-> TRUE, polygon_mode_line |-> TRUE])
    /\ InterfaceAndCameraNew

Init ==
    /\ \E m \in MsaaValues, s \in ScreenSpaceAntiAliasingValues, size \in InitialScreenSizes :
           New(m, s, size, "Normal", "Linear")
    /\ OutsideNew

----------------------------------------------------------------------------
(* Prepare for GlobalContext. *)

\* Mutation of StagedPointLights: the shadow casters are tagged with their
\* index in the instruction.
StagedPointLightsTaggedFromZero(instruction) ==
    [i \in 1..(instruction.casters + instruction.plain) |->
        IF i <= instruction.casters
        THEN [light |-> <<"point_light_shadow_caster", i - 1>>, texture_index |-> i - 1]
        ELSE [light |-> <<"point_light", i - 1 - instruction.casters>>, texture_index |-> 0]]

\* Mutation of StagedPointLights: the list stops at the initial capacity of
\* the point light buffer.
StagedPointLightsUpToCapacity(instruction) ==
    [i \in 1..Min(instruction.casters + instruction.plain, InitialPointLightCapacity) |->
        IF i <= instruction.casters
        THEN [light |-> <<"point_light_shadow_caster", i - 1>>, texture_index |-> (i - 1) + 1]
        ELSE [light |-> <<"point_light", i - 1 - instruction.casters>>, texture_index |-> 0]]

\* The point light list staged for `instruction` into the cleared list: the
\* shadow casters, tagged with instance_index + 1, followed by the plain
\* point lights, tagged 0.
StagedPointLights(instruction) ==
    [i \in 1..(instruction.casters + instruction.plain) |->
        IF i <= instruction.casters
        THEN [light |-> <<"point_light_shadow_caster", i - 1>>, texture_index |-> (i - 1) + 1]
        ELSE [light |-> <<"point_light", i - 1 - instruction.casters>>, texture_index |-> 0]]

\* Mutation of AmbientLightColor: the color of the instruction, whatever the
\* render settings.
AmbientLightColorOfInstruction(instruction) == instruction.uniforms.ambient_light_color

\* ambient_light_color of prepare in the debug build.
AmbientLightColor(instruction) ==
    IF ~instruction.render_settings.show_ambient_light
    THEN BLACK
    ELSE instruction.uniforms.ambient_light_color

\* directional_light_color of prepare in the debug build.
DirectionalLightColor(instruction) ==
    IF ~instruction.render_settings.show_directional_light
    THEN BLACK
    ELSE instruction.directional_light_with_shadow.color

\* Of the staged uniforms the model keeps the fields that prepare derives
\* from the context, the light lists and the render settings (ambient_color,
\* screen_size, point_light_count, the directional light's color) and the
\* directional light's direction; the matrices, the indicator and the timers
\* are copies of the instruction's values.
PrepareGlobalContext(instruction) ==
    /\ global_uniforms' =
           [ambient_color |-> components_linear(AmbientLightColor(instruction)),
            screen_size |-> screen_size,
            point_light_count |-> instruction.casters + instruction.plain]
    /\ directional_light_uniforms' =
           [color |-> components_linear(DirectionalLightColor(instruction)),
            direction |-> <<instruction.directional_light_with_shadow.direction, 0>>]
    /\ point_light_data' = StagedPointLights(instruction)
    /\ op' = Operation("prepare", instruction)
    /\ UNCHANGED <<settings, forward_textures, screen_textures, shadow_textures, fixed_buffers,
                   point_light_data_buffer, anti_aliasing_resources, samplers, bind_groups,
                   allocated, updates, frames, outside_global_context, bind_group_layouts>>

\* The four bind groups, created in the order of the source from the given
\* resources; their ids are a + 1 .. a + 4.
RebuiltBindGroups(a, uniforms, directional, point_lights, debug) ==
    [global |->
         create_global_bind_group(a + 1, uniforms, nearest_sampler, linear_sampler,
             texture_sampler),
     light_culling |->
         create_light_culling_bind_group(a + 2, point_lights, tile_light_count_texture,
             tile_light_indices_buffer),
     forward |->
         create_forward_bind_group(a + 3, directional, point_lights, tile_light_count_texture,
             tile_light_indices_buffer, directional_shadow_map_texture,
             point_shadow_map_textures),
     debug |->
         create_debug_bind_group(a + 4, debug, picker_buffer_texture,
             directional_shadow_map_texture, tile_light_count_texture,
             point_shadow_map_textures)]

\* Mutation of WritesPointLightData: the point lights are written even when
\* the list is empty.
WritesPointLightDataAlways(data) == TRUE

\* `!self.point_light_data.is_empty()`
WritesPointLightData(data) == data # << >>

\* Mutation of UploadPointLightData: every frame's lights are uploaded into
\* a new buffer of exactly their size.
UploadPointLightDataIntoNewBuffer(buffer, data, id, grown) ==
    BufferWithCapacity(id, Len(data) * SizeOfPointLightData)

\* The point light buffer after the conditional write of upload.
UploadPointLightData(buffer, data, id, grown) ==
    IF WritesPointLightData(data)
    THEN BufferWrite(buffer, Len(data) * SizeOfPointLightData, id, grown)
    ELSE buffer

\* Mutations of UploadRebuilds: an upload that never rebuilds its bind
\* groups, and one that rebuilds them every frame.
UploadRebuildsNever(recreated) == FALSE

UploadRebuildsAlways(recreated) == TRUE

\* `recreated` of GlobalContext::upload decides whether the bind groups are
\* rebuilt.
UploadRebuilds(recreated) == recreated

Upload(grown) ==
    LET n(flag) == IF flag THEN 1 ELSE 0
        r1 == WriteRecreates(global_uniforms_buffer, SizeOfGlobalUniforms)
        a1 == allocated + n(r1)
        uniforms == BufferWrite(global_uniforms_buffer, SizeOfGlobalUniforms, a1, grown)
        r2 == WriteRecreates(directional_light_uniforms_buffer, SizeOfDirectionalLightUniforms)
        a2 == a1 + n(r2)
        directional ==
            BufferWrite(directional_light_uniforms_buffer, SizeOfDirectionalLightUniforms, a2,
                grown)
        size == Len(point_light_data) * SizeOfPointLightData
        written == WritesPointLightData(point_light_data)
        r3 == written /\ WriteRecreates(point_light_data_buffer, size)
        a3 == a2 + n(r3)
        point_lights ==
            UploadPointLightData(point_light_data_buffer, point_light_data, a3, grown)
        r4 == WriteRecreates(debug_uniforms_buffer, SizeOfDebugUniforms)
        a4 == a3 + n(r4)
        debug == BufferWrite(debug_uniforms_buffer, SizeOfDebugUniforms, a4, grown)
        recreated == r1 \/ r2 \/ r3 \/ r4
        groups == RebuiltBindGroups(a4, uniforms, directional, point_lights, debug)
    IN  /\ frames < MaxFrames
        /\ grown \in GrownCapacities(size)
        /\ global_uniforms_buffer' = uniforms
        /\ directional_light_uniforms_buffer' = directional
        /\ point_light_data_buffer' = point_lights
        /\ debug_uniforms_buffer' = debug
        /\ IF UploadRebuilds(recreated)
           THEN /\ global_bind_group' = groups.global
                /\ light_culling_bind_group' = groups.light_culling
                /\ forward_bind_group' = groups.forward
                /\ debug_bind_group' = groups.debug
                /\ allocated' = a4 + 4
           ELSE /\ UNCHANGED bind_groups
                /\ allocated' = a4
        /\ op' = [name |-> "upload", argument |-> NoArgument, recreated |-> recreated,
                  written |-> written]
        /\ frames' = frames + 1
        /\ UNCHANGED <<settings, forward_textures, screen_textures, shadow_textures,
                       picker_value_buffer, anti_aliasing_resources, samplers, staged, updates,
                       outside_global_context>>
        /\ GetOrInitLayouts(IF UploadRebuilds(recreated) THEN RebuiltLayoutRoles ELSE { })

----------------------------------------------------------------------------
(* Settings updates of GlobalContext. *)

\* Mutation of update_screen_size_resources: the new interface buffer texture
\* is dropped instead of stored.
update_screen_size_resources_keeping_interface(new_screen_size) ==
    LET textures ==
            create_screen_size_textures(allocated, new_screen_size, msaa,
                screen_space_anti_aliasing)
        a1 == allocated + ScreenSizeTextureCount
        resolved ==
            create_resolved_color_texture(a1, new_screen_size, msaa, screen_space_anti_aliasing)
        a2 == a1 + ResolvedColorTextureCount(msaa)
        tile_indices == create_tile_light_indices_buffer(a2, new_screen_size)
        aa == create_anti_aliasing_resources(a2 + 1, screen_space_anti_aliasing, new_screen_size)
        a3 == a2 + 1 + AntiAliasingResourceCount(screen_space_anti_aliasing)
    IN  /\ updates < MaxUpdates
        /\ screen_size' = new_screen_size
        /\ forward_color_texture' = textures.forward_color_texture
        /\ forward_depth_texture' = textures.forward_depth_texture
        /\ picker_buffer_texture' = textures.picker_buffer_texture
        /\ picker_depth_texture' = textures.picker_depth_texture
        /\ resolved_color_texture' = resolved
        /\ UNCHANGED interface_buffer_texture
        /\ tile_light_count_texture' = textures.tile_light_count_texture
        /\ tile_light_indices_buffer' = tile_indices
        /\ anti_aliasing_resources' = aa
        /\ light_culling_bind_group' =
               create_light_culling_bind_group(a3 + 1, point_light_data_buffer,
                   textures.tile_light_count_texture, tile_indices)
        /\ forward_bind_group' =
               create_forward_bind_group(a3 + 2, directional_light_uniforms_buffer,
                   point_light_data_buffer, textures.tile_light_count_texture, tile_indices,
                   directional_shadow_map_texture, point_shadow_map_textures)
        /\ debug_bind_group' =
               create_debug_bind_group(a3 + 3, debug_uniforms_buffer,
                   textures.picker_buffer_texture, directional_shadow_map_texture,
                   textures.tile_light_count_texture, point_shadow_map_textures)
        /\ allocated' = a3 + 3
        /\ op' = Operation("update_screen_size_resources", new_screen_size)
        /\ updates' = updates + 1
        /\ UNCHANGED <<outside_global_context, frames>>
        /\ GetOrInitLayouts({ "light_culling", "forward", "debug" } \cup Cmaa2LayoutRoles(screen_space_anti_aliasing))
        /\ UNCHANGED <<settings, shadow_textures, fixed_buffers, point_light_data_buffer,
                       samplers, global_bind_group, staged>>

update_screen_size_resources(new_screen_size) ==
    LET textures ==
            create_screen_size_textures(allocated, new_screen_size, msaa,
                screen_space_anti_aliasing)
        a1 == allocated + ScreenSizeTextureCount
        resolved ==
            create_resolved_color_texture(a1, new_screen_size, msaa, screen_space_anti_aliasing)
        a2 == a1 + ResolvedColorTextureCount(msaa)
        tile_indices == create_tile_light_indices_buffer(a2, new_screen_size)
        aa == create_anti_aliasing_resources(a2 + 1, screen_space_anti_aliasing, new_screen_size)
        a3 == a2 + 1 + AntiAliasingResourceCount(screen_space_anti_aliasing)
    IN  /\ updates < MaxUpdates
        /\ screen_size' = new_screen_size
        /\ forward_color_texture' = textures.forward_color_texture
        /\ forward_depth_texture' = textures.forward_depth_texture
        /\ picker_buffer_texture' = textures.picker_buffer_texture
        /\ picker_depth_texture' = textures.picker_depth_texture
        /\ resolved_color_texture' = resolved
        /\ interface_buffer_texture' = textures.interface_buffer_texture
        /\ tile_light_count_texture' = textures.tile_light_count_texture
        /\ tile_light_indices_buffer' = tile_indices
        /\ anti_aliasing_resources' = aa
        /\ light_culling_bind_group' =
               create_light_culling_bind_group(a3 + 1, point_light_data_buffer,
                   textures.tile_light_count_texture, tile_indices)
        /\ forward_bind_group' =
               create_forward_bind_group(a3 + 2, directional_light_uniforms_buffer,
                   point_light_data_buffer, textures.tile_light_count_texture, tile_indices,
                   directional_shadow_map_texture, point_shadow_map_textures)
        /\ debug_bind_group' =
               create_debug_bind_group(a3 + 3, debug_uniforms_buffer,
                   textures.picker_buffer_texture, directional_shadow_map_texture,
                   textures.tile_light_count_texture, point_shadow_map_textures)
        /\ allocated' = a3 + 3
        /\ op' = Operation("update_screen_size_resources", new_screen_size)
        /\ updates' = updates + 1
        /\ UNCHANGED <<outside_global_context, frames>>
        /\ GetOrInitLayouts({ "light_culling", "forward", "debug" } \cup Cmaa2LayoutRoles(screen_space_anti_aliasing))
        /\ UNCHANGED <<settings, shadow_textures, fixed_buffers, point_light_data_buffer,
                       samplers, global_bind_group, staged>>

\* Mutation of update_shadow_size_textures: the light culling bind group is
\* rebuilt as well.
update_shadow_size_textures_rebuilding_light_culling(shadow_detail) ==
    LET dsize == ScreenSize(directional_shadow_resolution(shadow_detail),
                            directional_shadow_resolution(shadow_detail))
        psize == ScreenSize(point_shadow_resolution(shadow_detail),
                            point_shadow_resolution(shadow_detail))
        directional_shadow == create_directional_shadow_texture(allocated, dsize)
        point_shadow == create_point_shadow_textures(allocated + 1, psize)
    IN  /\ updates < MaxUpdates
        /\ directional_shadow_size' = dsize
        /\ point_shadow_size' = psize
        /\ directional_shadow_map_texture' = directional_shadow
        /\ point_shadow_map_textures' = point_shadow
        /\ forward_bind_group' =
               create_forward_bind_group(allocated + 3, directional_light_uniforms_buffer,
                   point_light_data_buffer, tile_light_count_texture,
                   tile_light_indices_buffer, directional_shadow, point_shadow)
        /\ debug_bind_group' =
               create_debug_bind_group(allocated + 4, debug_uniforms_buffer,
                   picker_buffer_texture, directional_shadow, tile_light_count_texture,
                   point_shadow)
        /\ light_culling_bind_group' =
               create_light_culling_bind_group(allocated + 5, point_light_data_buffer,
                   tile_light_count_texture, tile_light_indices_buffer)
        /\ allocated' = allocated + 5
        /\ op' = Operation("update_shadow_size_textures", [shadow_detail |-> shadow_detail])
        /\ updates' = updates + 1
        /\ UNCHANGED <<outside_global_context, frames>>
        /\ GetOrInitLayouts({ "light_culling", "forward", "debug" })
        /\ UNCHANGED <<settings, forward_textures, screen_textures, fixed_buffers,
                       point_light_data_buffer, anti_aliasing_resources, samplers,
                       global_bind_group, staged>>

\* Mutation of update_shadow_size_textures: the stored point shadow size is
\* left as it was.
update_shadow_size_textures_keeping_point_shadow_size(shadow_detail) ==
    LET dsize == ScreenSize(directional_shadow_resolution(shadow_detail),
                            directional_shadow_resolution(shadow_detail))
        psize == ScreenSize(point_shadow_resolution(shadow_detail),
                            point_shadow_resolution(shadow_detail))
        directional_shadow == create_directional_shadow_texture(allocated, dsize)
        point_shadow == create_point_shadow_textures(allocated + 1, psize)
    IN  /\ updates < MaxUpdates
        /\ directional_shadow_size' = dsize
        /\ UNCHANGED point_shadow_size
        /\ directional_shadow_map_texture' = directional_shadow
        /\ point_shadow_map_textures' = point_shadow
        /\ forward_bind_group' =
               create_forward_bind_group(allocated + 3, directional_light_uniforms_buffer,
                   point_light_data_buffer, tile_light_count_texture,
                   tile_light_indices_buffer, directional_shadow, point_shadow)
        /\ debug_bind_group' =
               create_debug_bind_group(allocated + 4, debug_uniforms_buffer,
                   picker_buffer_texture, directional_shadow, tile_light_count_texture,
                   point_shadow)
        /\ allocated' = allocated + 4
        /\ op' = Operation("update_shadow_size_textures", [shadow_detail |-> shadow_detail])
        /\ updates' = updates + 1
        /\ UNCHANGED <<outside_global_context, frames>>
        /\ GetOrInitLayouts({ "forward", "debug" })
        /\ UNCHANGED <<settings, forward_textures, screen_textures, fixed_buffers,
                       point_light_data_buffer, anti_aliasing_resources, samplers,
                       global_bind_group, light_culling_bind_group, staged>>

update_shadow_size_textures(shadow_detail) ==
    LET dsize == ScreenSize(directional_shadow_resolution(shadow_detail),
                            directional_shadow_resolution(shadow_detail))
        psize == ScreenSize(point_shadow_resolution(shadow_detail),
                            point_shadow_resolution(shadow_detail))
        directional_shadow == create_directional_shadow_texture(allocated, dsize)
        point_shadow == create_point_shadow_textures(allocated + 1, psize)
    IN  /\ updates < MaxUpdates
        /\ directional_shadow_size' = dsize
        /\ point_shadow_size' = psize
        /\ directional_shadow_map_texture' = directional_shadow
        /\ point_shadow_map_textures' = point_shadow
        /\ forward_bind_group' =
               create_forward_bind_group(allocated + 3, directional_light_uniforms_buffer,
                   point_light_data_buffer, tile_light_count_texture,
                   tile_light_indices_buffer, directional_shadow, point_shadow)
        /\ debug_bind_group' =
               create_debug_bind_group(allocated + 4, debug_uniforms_buffer,
                   picker_buffer_texture, directional_shadow, tile_light_count_texture,
                   point_shadow)
        /\ allocated' = allocated + 4
        /\ op' = Operation("update_shadow_size_textures", [shadow_detail |-> shadow_detail])
        /\ updates' = updates + 1
        /\ UNCHANGED <<outside_global_context, frames>>
        /\ GetOrInitLayouts({ "forward", "debug" })
        /\ UNCHANGED <<settings, forward_textures, screen_textures, fixed_buffers,
                       point_light_data_buffer, anti_aliasing_resources, samplers,
                       global_bind_group, light_culling_bind_group, staged>>

\* Mutation of update_texture_sampler: the forward bind group is rebuilt as
\* well.
update_texture_sampler_rebuilding_forward(texture_sampler_type) ==
    LET sampler == CreateNewSampler(allocated + 1, texture_sampler_type)
    IN  /\ updates < MaxUpdates
        /\ texture_sampler' = sampler
        /\ global_bind_group' =
               create_global_bind_group(allocated + 2, global_uniforms_buffer, nearest_sampler,
                   linear_sampler, sampler)
        /\ forward_bind_group' =
               create_forward_bind_group(allocated + 3, directional_light_uniforms_buffer,
                   point_light_data_buffer, tile_light_count_texture,
                   tile_light_indices_buffer, directional_shadow_map_texture,
                   point_shadow_map_textures)
        /\ allocated' = allocated + 3
        /\ op' = Operation("update_texture_sampler", [type |-> texture_sampler_type])
        /\ updates' = updates + 1
        /\ UNCHANGED <<outside_global_context, frames>>
        /\ GetOrInitLayouts({ "global", "forward" })
        /\ UNCHANGED <<settings, forward_textures, screen_textures, shadow_textures,
                       fixed_buffers, point_light_data_buffer, anti_aliasing_resources,
                       nearest_sampler, linear_sampler, light_culling_bind_group,
                       debug_bind_group, staged>>

update_texture_sampler(texture_sampler_type) ==
    LET sampler == CreateNewSampler(allocated + 1, texture_sampler_type)
    IN  /\ updates < MaxUpdates
        /\ texture_sampler' = sampler
        /\ global_bind_group' =
               create_global_bind_group(allocated + 2, global_uniforms_buffer, nearest_sampler,
                   linear_sampler, sampler)
        /\ allocated' = allocated + 2
        /\ op' = Operation("update_texture_sampler", [type |-> texture_sampler_type])
        /\ updates' = updates + 1
        /\ UNCHANGED <<outside_global_context, frames>>
        /\ GetOrInitLayouts({ "global" })
        /\ UNCHANGED <<settings, forward_textures, screen_textures, shadow_textures,
                       fixed_buffers, point_light_data_buffer, anti_aliasing_resources,
                       nearest_sampler, linear_sampler, light_culling_bind_group,
                       forward_bind_group, debug_bind_group, staged>>

\* Mutation of update_msaa: the anti-aliasing resources are recreated as
\* well.
update_msaa_recreating_anti_aliasing(new_msaa) ==
    LET forward ==
            create_forward_texture(allocated, screen_size, new_msaa, screen_space_anti_aliasing)
        resolved ==
            create_resolved_color_texture(allocated + 2, screen_size, new_msaa,
                screen_space_anti_aliasing)
    IN  /\ updates < MaxUpdates
        /\ msaa' = new_msaa
        /\ forward_color_texture' = forward.color
        /\ forward_depth_texture' = forward.depth
        /\ resolved_color_texture' = resolved
        /\ anti_aliasing_resources' =
               create_anti_aliasing_resources(allocated + 2 + ResolvedColorTextureCount(new_msaa),
                   screen_space_anti_aliasing, screen_size)
        /\ allocated' =
               allocated + 2 + ResolvedColorTextureCount(new_msaa)
                   + AntiAliasingResourceCount(screen_space_anti_aliasing)
        /\ op' = Operation("update_msaa", [msaa |-> new_msaa])
        /\ updates' = updates + 1
        /\ UNCHANGED <<outside_global_context, frames>>
        /\ GetOrInitLayouts(Cmaa2LayoutRoles(screen_space_anti_aliasing))
        /\ UNCHANGED <<screen_space_anti_aliasing, screen_textures, shadow_textures,
                       fixed_buffers, point_light_data_buffer,
                       samplers, bind_groups, staged>>

update_msaa(new_msaa) ==
    LET forward ==
            create_forward_texture(allocated, screen_size, new_msaa, screen_space_anti_aliasing)
        resolved ==
            create_resolved_color_texture(allocated + 2, screen_size, new_msaa,
                screen_space_anti_aliasing)
    IN  /\ updates < MaxUpdates
        /\ msaa' = new_msaa
        /\ forward_color_texture' = forward.color
        /\ forward_depth_texture' = forward.depth
        /\ resolved_color_texture' = resolved
        /\ allocated' = allocated + 2 + ResolvedColorTextureCount(new_msaa)
        /\ op' = Operation("update_msaa", [msaa |-> new_msaa])
        /\ updates' = updates + 1
        /\ UNCHANGED <<outside_global_context, frames>>
        /\ GetOrInitLayouts({ })
        /\ UNCHANGED <<screen_space_anti_aliasing, screen_textures, shadow_textures,
                       fixed_buffers, point_light_data_buffer, anti_aliasing_resources,
                       samplers, bind_groups, staged>>

\* Mutation of update_screen_space_anti_aliasing: the anti-aliasing
\* resources of the previous mode are kept.
update_screen_space_anti_aliasing_keeping_resources(new_ssaa) ==
    LET forward == create_forward_texture(allocated, screen_size, msaa, new_ssaa)
        resolved == create_resolved_color_texture(allocated + 2, screen_size, msaa, new_ssaa)
        a1 == allocated + 2 + ResolvedColorTextureCount(msaa)
    IN  /\ updates < MaxUpdates
        /\ screen_space_anti_aliasing' = new_ssaa
        /\ forward_color_texture' = forward.color
        /\ forward_depth_texture' = forward.depth
        /\ resolved_color_texture' = resolved
        /\ allocated' = a1
        /\ op' = Operation("update_screen_space_anti_aliasing",
                            [screen_space_anti_aliasing |-> new_ssaa])
        /\ updates' = updates + 1
        /\ UNCHANGED <<outside_global_context, frames>>
        /\ GetOrInitLayouts({ })
        /\ UNCHANGED <<msaa, screen_textures, shadow_textures, fixed_buffers,
                       point_light_data_buffer, anti_aliasing_resources, samplers,
                       bind_groups, staged>>

update_screen_space_anti_aliasing(new_ssaa) ==
    LET forward == create_forward_texture(allocated, screen_size, msaa, new_ssaa)
        resolved == create_resolved_color_texture(allocated + 2, screen_size, msaa, new_ssaa)
        a1 == allocated + 2 + ResolvedColorTextureCount(msaa)
        aa == create_anti_aliasing_resources(a1, new_ssaa, screen_size)
    IN  /\ updates < MaxUpdates
        /\ screen_space_anti_aliasing' = new_ssaa
        /\ forward_color_texture' = forward.color
        /\ forward_depth_texture' = forward.depth
        /\ resolved_color_texture' = resolved
        /\ anti_aliasing_resources' = aa
        /\ allocated' = a1 + AntiAliasingResourceCount(new_ssaa)
        /\ op' = Operation("update_screen_space_anti_aliasing",
                            [screen_space_anti_aliasing |-> new_ssaa])
        /\ updates' = updates + 1
        /\ UNCHANGED <<outside_global_context, frames>>
        /\ GetOrInitLayouts(Cmaa2LayoutRoles(new_ssaa))
        /\ UNCHANGED <<msaa, screen_textures, shadow_textures, fixed_buffers,
                       point_light_data_buffer, samplers, bind_groups, staged>>

----------------------------------------------------------------------------

Next ==
    \/ \E instruction \in LightInstructions : PrepareGlobalContext(instruction)
    \/ \E grown \in GrownCapacities(Len(point_light_data) * SizeOfPointLightData) :
           Upload(grown)
    \/ \E size \in ScreenSizes : update_screen_size_resources(size)
    \/ \E detail \in ShadowDetails : update_shadow_size_textures(detail)
    \/ \E type \in TextureSamplerTypes : update_texture_sampler(type)
    \/ \E m \in MsaaValues : update_msaa(m)
    \/ \E s \in ScreenSpaceAntiAliasingValues : update_screen_space_anti_aliasing(s)

Spec == Init /\ [][Next]_vars

----------------------------------------------------------------------------
(* Application of calculate_light_tile_count to arbitrary screen sizes. *)

\* Largest screen width and height the tile count is applied to.
MaxScreenSide == 40

ChooseScreenSize ==
    /\ fn_pc = "idle"
    /\ \E w \in 0..MaxScreenSide, h \in 0..MaxScreenSide : fn_arg' = ScreenSize(w, h)
    /\ fn_pc' = "chosen"
    /\ UNCHANGED <<fn_result, global_context, outside_function_application>>

ApplyLightTileCount ==
    /\ fn_pc = "chosen"
    /\ fn_result' = calculate_light_tile_count(fn_arg)
    /\ fn_pc' = "returned"
    /\ UNCHANGED <<fn_arg, global_context, outside_function_application>>

TileInit ==
    /\ New("Off", "Off", ScreenSize(0, 0), "Normal", "Linear")
    /\ OutsideNew

TileNext == ChooseScreenSize \/ ApplyLightTileCount

TileSpec == TileInit /\ [][TileNext]_vars

----------------------------------------------------------------------------
(* GlobalContext over screen sizes from empty to larger than any CMAA2 list
   buffer may become: construction, resizes and anti-aliasing changes. *)

\* Screen widths and heights: empty, odd and even small sides, a common side
\* and sides whose area estimates exceed MAX_BUFFER_SIZE.
Cmaa2ScreenSides == { 0, 1, 2, 3, 5, 1920, 8192, 16384 }

Cmaa2ScreenSizes == { ScreenSize(w, h) : w \in Cmaa2ScreenSides, h \in Cmaa2ScreenSides }

Cmaa2Init ==
    /\ \E s \in ScreenSpaceAntiAliasingValues, size \in Cmaa2ScreenSizes :
           New("Off", s, size, "Normal", "Linear")
    /\ OutsideNew

Cmaa2Next ==
    \/ \E size \in Cmaa2ScreenSizes : update_screen_size_resources(size)
    \/ \E s \in ScreenSpaceAntiAliasingValues : update_screen_space_anti_aliasing(s)

Cmaa2Spec == Cmaa2Init /\ [][Cmaa2Next]_vars

----------------------------------------------------------------------------
(* GlobalContext over frames of every color and debug render setting. *)

LightingInit ==
    /\ New("Off", "Off", ScreenSize(1920, 1080), "Normal", "Linear")
    /\ OutsideNew

LightingNext ==
    \/ \E instruction \in LightingInstructions : PrepareGlobalContext(instruction)
    \/ \E grown \in GrownCapacities(Len(point_light_data) * SizeOfPointLightData) :
           Upload(grown)

LightingSpec == LightingInit /\ [][LightingNext]_vars

----------------------------------------------------------------------------
(* Application of create_screen_size_textures to arbitrary screen sizes. *)

ApplyCreateScreenSizeTextures ==
    /\ fn_pc = "chosen"
    /\ \E m \in MsaaValues, s \in ScreenSpaceAntiAliasingValues :
           fn_result' = create_screen_size_textures(0, fn_arg, m, s)
    /\ fn_pc' = "create_screen_size_textures"
    /\ UNCHANGED <<fn_arg, global_context, outside_function_application>>

PickerNext == ChooseScreenSize \/ ApplyCreateScreenSizeTextures

PickerSpec == TileInit /\ [][PickerNext]_vars

----------------------------------------------------------------------------
(* Frames of the point shadow pass: GlobalContext and the pass context
   prepare the frame's instruction, the pass context uploads, and the
   renderer begins one render pass per (shadow caster, face). *)

PointShadowInit ==
    /\ New("Off", "Off", ScreenSize(0, 0), "Normal", "Linear")
    /\ NoFunctionApplication
    /\ NoFrame
    /\ \E alignment \in UniformAlignments : PointShadowNew(alignment)
    /\ NoModelFrame
    /\ ForwardModelDrawerNew([multidraw_indirect |-> TRUE, polygon_mode_line |-> TRUE])
    /\ InterfaceAndCameraNew

PointShadowNext ==
    \/ BeginFrame
    \/ frame_pc = "begin" /\ PrepareGlobalContext(instructions)
    \/ PointShadowPrepare
    \/ PointShadowUpload
    \/ \E pass_data \in PassDatas : create_pass(pass_data)

PointShadowSpec == PointShadowInit /\ [][PointShadowNext]_vars

----------------------------------------------------------------------------
(* Frames of any number of shadow casters up to one more than the point
   shadow maps: GlobalContext and the pass context prepare and upload. *)

\* The largest number of shadow casters of a frame.
MaxShadowCasters == NUMBER_OF_POINT_LIGHTS_WITH_SHADOWS + 1

ShadowCasterInstructions == { RenderInstruction(casters, 1) : casters \in 0..MaxShadowCasters }

\* The producer hands over a RenderInstruction with any number of shadow
\* casters.
BeginShadowCasterFrame ==
    /\ frame_pc \in { "idle", "uploaded" }
    /\ instructions' \in ShadowCasterInstructions
    /\ frame_pc' = "begin"
    /\ pass' = NoPass
    /\ previous_pass' = NoPass
    /\ UNCHANGED <<global_context, outside_point_shadow, point_shadow_context, pass_allocated>>
    /\ UNCHANGED bind_group_layouts

ShadowCasterNext ==
    \/ BeginShadowCasterFrame
    \/ frame_pc = "begin" /\ op.argument # instructions /\ PrepareGlobalContext(instructions)
    \/ PointShadowPrepare
    \/ PointShadowUpload

ShadowCasterSpec == PointShadowInit /\ [][ShadowCasterNext]_vars

----------------------------------------------------------------------------
(* Frames of the forward model drawer: the drawer prepares the frame's model
   instructions, uploads, and draws the frame's batches. *)

ForwardModelInit ==
    /\ New("Off", "Off", ScreenSize(0, 0), "Normal", "Linear")
    /\ NoFunctionApplication
    /\ NoFrame
    /\ PointShadowNew(256)
    /\ NoModelFrame
    /\ \E device_capabilities \in CapabilitiesValues :
           ForwardModelDrawerNew(device_capabilities)
    /\ InterfaceAndCameraNew

ForwardModelNext ==
    \/ BeginModelFrame
    \/ ForwardModelPrepare
    \/ \E rounded \in BOOLEAN : ForwardModelUpload(rounded)
    \/ \E requested \in BOOLEAN : ForwardModelDraw(requested)

ForwardModelSpec == ForwardModelInit /\ [][ForwardModelNext]_vars

----------------------------------------------------------------------------
(* Frames of the renderer: the scene hands over the frame's instructions,
   every resource owner prepares, every resource owner uploads, and the
   passes are begun and drawn.  Settings are applied between frames. *)

\* The largest model instruction list of the frames of the renderer.
MaxFrameModels == 2

FrameInit ==
    /\ New("Off", "Off", ScreenSize(0, 0), "Normal", "Linear")
    /\ NoFunctionApplication
    /\ NoFrame
    /\ PointShadowNew(256)
    /\ NoModelFrame
    /\ ForwardModelDrawerNew([multidraw_indirect |-> TRUE, polygon_mode_line |-> TRUE])
    /\ InterfaceAndCameraNew

\* No frame is in progress.
BetweenFrames ==
    /\ frame_pc \in { "idle", "uploaded" }
    /\ forward_pc \in { "idle", "uploaded", "drawn" }

\* Every resource owner has prepared the frame's instructions.
AllPrepared ==
    /\ op.name = "prepare"
    /\ frame_pc = "prepared"
    /\ forward_pc = "prepared"

\* Mutation of AllUploaded: recording starts without the upload of the
\* forward model drawer.
AllUploadedButForwardModel ==
    /\ op.name = "upload"
    /\ frame_pc = "uploaded"

\* Every resource owner has enqueued its upload for the frame.
AllUploaded ==
    /\ op.name = "upload"
    /\ frame_pc = "uploaded"
    /\ forward_pc \in { "uploaded", "drawn" }

\* The point shadow passes of a frame are begun caster by caster, face by
\* face, for the shadow casters of the frame.
NextPassData ==
    IF pass = NoPass THEN [shadow_caster_index |-> 0, face_index |-> 0]
    ELSE IF pass.pass_data.face_index + 1 < NUMBER_FACES
    THEN [shadow_caster_index |-> pass.pass_data.shadow_caster_index,
          face_index |-> pass.pass_data.face_index + 1]
    ELSE [shadow_caster_index |-> pass.pass_data.shadow_caster_index + 1, face_index |-> 0]

FrameBegin == BetweenFrames /\ BeginFrame

FrameBeginModels ==
    /\ frame_pc = "begin"
    /\ BeginModelFrame
    /\ Len(models') <= MaxFrameModels

FramePrepareGlobalContext ==
    /\ frame_pc = "begin"
    /\ forward_pc = "begin"
    /\ op.name # "prepare"
    /\ PrepareGlobalContext(instructions)

FramePreparePointShadow == forward_pc = "begin" /\ PointShadowPrepare

FramePrepareForwardModel == frame_pc = "prepared" /\ ForwardModelPrepare

FrameUploadGlobalContext ==
    /\ AllPrepared
    /\ \E grown \in GrownCapacities(Len(point_light_data) * SizeOfPointLightData) :
           Upload(grown)

FrameUploadPointShadow == op.name = "upload" /\ PointShadowUpload

FrameUploadForwardModel ==
    /\ frame_pc = "uploaded"
    /\ \E rounded \in BOOLEAN : ForwardModelUpload(rounded)

FrameCreatePass ==
    /\ AllUploaded
    /\ NextPassData.shadow_caster_index < instructions.casters
    /\ create_pass(NextPassData)

FrameDraw ==
    /\ AllUploaded
    /\ \E requested \in BOOLEAN : ForwardModelDraw(requested)

FrameUpdateShadowSize ==
    /\ BetweenFrames
    /\ \E detail \in ShadowDetails : update_shadow_size_textures(detail)

FrameNext ==
    \/ FrameBegin
    \/ FrameBeginModels
    \/ FramePrepareGlobalContext
    \/ FramePreparePointShadow
    \/ FramePrepareForwardModel
    \/ FrameUploadGlobalContext
    \/ FrameUploadPointShadow
    \/ FrameUploadForwardModel
    \/ FrameCreatePass
    \/ FrameDraw
    \/ FrameUpdateShadowSize

FrameSpec == FrameInit /\ [][FrameNext]_vars

----------------------------------------------------------------------------
(* Calls of the bind group layout functions from two threads, after the
   construction of the contexts without screen space anti-aliasing. *)

LayoutInit ==
    /\ New("Off", "Off", ScreenSize(0, 0), "Normal", "Linear")
    /\ OutsideNew

LayoutNext ==
    \/ \E thread \in LayoutThreads, role \in LayoutRoles : CallBindGroupLayout(thread, role)
    \/ \E thread \in LayoutThreads : GetLayout(thread)
    \/ \E thread \in LayoutThreads : RunConstructor(thread)
    \/ \E thread \in LayoutThreads : StoreLayout(thread)

LayoutSpec == LayoutInit /\ [][LayoutNext]_vars

----------------------------------------------------------------------------
(* Map: the tile grid and the walk indicator. *)

\* Largest width and height of the maps.
MaxMapSide == 2

\* The tile at `index` of the tile vector; the corner heights tell the
\* tiles apart.
Tile(index, walkable) ==
    [flags |-> IF walkable THEN { "WALKABLE" } ELSE { },
     upper_left_height |-> 4 * index,
     upper_right_height |-> 4 * index + 1,
     lower_left_height |-> 4 * index + 2,
     lower_right_height |-> 4 * index + 3]

\* Maps of every size up to MaxMapSide, with width * height tiles of which
\* none, every second or all are walkable.
Maps ==
    { [width |-> w, height |-> h,
       tiles |->
           [i \in 1..(w * h) |->
               Tile(i - 1, walkable = "all" \/ (walkable = "alternating" /\ i % 2 = 0))]] :
          w \in 0..MaxMapSide, h \in 0..MaxMapSide,
          walkable \in { "none", "alternating", "all" } }

Vector2(x, y) == [x |-> x, y |-> y]

\* Tile positions inside, on the edge of and beyond the largest map.
MapPositions == { Vector2(x, y) : x \in 0..(MaxMapSide + 1), y \in 0..(MaxMapSide + 1) }

\* The indicator instruction of the frame before the call.
IndicatorInstructions == { None, Some([color |-> "earlier"]) }

\* Map::x_in_bounds
x_in_bounds(map, x) == x <= map.width

\* Map::y_in_bounds
y_in_bounds(map, y) == y <= map.height

Panic == [variant |-> "Panic"]

\* Map::get_tile: indexing the tile vector panics outside of it.
get_tile(map, position) ==
    LET index == position.x + position.y * map.width
    IN  IF index < Len(map.tiles)
        THEN [variant |-> "Tile", index |-> index, tile |-> map.tiles[index + 1]]
        ELSE Panic

\* Mutation of OutsideOfMap: the test of x_in_bounds and y_in_bounds.
OutsideOfMapBeyondEdge(map, position) ==
    ~x_in_bounds(map, position.x) \/ ~y_in_bounds(map, position.y)

\* The early return of render_walk_indicator.
OutsideOfMap(map, position) == position.x >= map.width \/ position.y >= map.height

\* Map::render_walk_indicator: the instruction after the call and the tile
\* read.  Horizontal coordinates are in units of HALF_TILE_SIZE, OFFSET is 1.
render_walk_indicator(map, instruction, color, position) ==
    IF OutsideOfMap(map, position)
    THEN [variant |-> "Returned", instruction |-> instruction, read |-> None]
    ELSE LET got == get_tile(map, position)
             tile == got.tile
             base_x == position.x
             base_y == position.y
             indicator ==
                 [upper_left |-> <<base_x, tile.upper_left_height + 1, base_y>>,
                  upper_right |-> <<base_x + 1, tile.upper_right_height + 1, base_y>>,
                  lower_left |-> <<base_x, tile.lower_left_height + 1, base_y + 1>>,
                  lower_right |-> <<base_x + 1, tile.lower_right_height + 1, base_y + 1>>,
                  color |-> color]
         IN  IF got = Panic THEN Panic
             ELSE [variant |-> "Returned",
                   instruction |->
                       IF "WALKABLE" \in tile.flags THEN Some(indicator) ELSE instruction,
                   read |-> Some(got.index)]

ChooseMapPosition ==
    /\ fn_pc = "idle"
    /\ \E map \in Maps, position \in MapPositions, instruction \in IndicatorInstructions :
           fn_arg' = [map |-> map, position |-> position, instruction |-> instruction]
    /\ fn_pc' = "chosen"
    /\ UNCHANGED <<fn_result, global_context, outside_function_application>>

ApplyGetTile ==
    /\ fn_pc = "chosen"
    /\ fn_result' = get_tile(fn_arg.map, fn_arg.position)
    /\ fn_pc' = "get_tile"
    /\ UNCHANGED <<fn_arg, global_context, outside_function_application>>

ApplyRenderWalkIndicator ==
    /\ fn_pc = "chosen"
    /\ fn_result' =
           render_walk_indicator(fn_arg.map, fn_arg.instruction, "now", fn_arg.position)
    /\ fn_pc' = "render_walk_indicator"
    /\ UNCHANGED <<fn_arg, global_context, outside_function_application>>

MapInit ==
    /\ New("Off", "Off", ScreenSize(0, 0), "Normal", "Linear")
    /\ OutsideNew

MapNext == ChooseMapPosition \/ ApplyGetTile \/ ApplyRenderWalkIndicator

MapSpec == MapInit /\ [][MapNext]_vars

----------------------------------------------------------------------------
(* PacketView over every packet list the writer may have built when the view
   is created, and every interleaving of appends, clears, switches of the
   update flag and updates. *)

PacketInit ==
    /\ New("Off", "Off", ScreenSize(0, 0), "Normal", "Linear")
    /\ NoFunctionApplication
    /\ NoFrame
    /\ PointShadowNew(256)
    /\ NoModelFrame
    /\ ForwardModelDrawerNew([multidraw_indirect |-> TRUE, polygon_mode_line |-> TRUE])
    /\ \E initial_packets \in PacketListsUpTo(1), initial_cleared \in BOOLEAN,
          initial_update \in BOOLEAN :
           PacketViewNew(initial_packets, initial_cleared, initial_update)
    /\ NoCharacterPreview
    /\ NoSmoothedValue

PacketNext ==
    \/ \E entry \in PacketEntries : AppendPacket(entry)
    \/ ClearPackets
    \/ \E flag \in BOOLEAN : SetPacketUpdate(flag)
    \/ PacketViewUpdate

PacketSpec == PacketInit /\ [][PacketNext]_vars

----------------------------------------------------------------------------
(* CharacterPreview of every slot over every character list and move
   request, and every interleaving of changes, updates and clicks. *)

CharacterPreviewInit ==
    /\ New("Off", "Off", ScreenSize(0, 0), "Normal", "Linear")
    /\ NoFunctionApplication
    /\ NoFrame
    /\ PointShadowNew(256)
    /\ NoModelFrame
    /\ ForwardModelDrawerNew([multidraw_indirect |-> TRUE, polygon_mode_line |-> TRUE])
    /\ NoPacketView
    /\ \E number \in CharacterSlots, flag \in BOOLEAN :
           CharacterPreviewNew(<<>>, None, flag, number)
    /\ NoSmoothedValue

CharacterPreviewNext ==
    \/ \E list \in CharacterLists : SetCharacters(list)
    \/ \E request \in MoveRequests : SetMoveRequest(request)
    \/ ResetChanged
    \/ CharacterPreviewUpdate
    \/ CharacterPreviewLeftClick

CharacterPreviewSpec == CharacterPreviewInit /\ [][CharacterPreviewNext]_vars

----------------------------------------------------------------------------
(* SmoothedValue over every interleaving of move_desired and update. *)

SmoothedInit ==
    /\ New("Off", "Off", ScreenSize(0, 0), "Normal", "Linear")
    /\ NoFunctionApplication
    /\ NoFrame
    /\ PointShadowNew(256)
    /\ NoModelFrame
    /\ ForwardModelDrawerNew([multidraw_indirect |-> TRUE, polygon_mode_line |-> TRUE])
    /\ NoPacketView
    /\ NoCharacterPreview
    /\ \E value \in SmoothedStarts, new_threshhold \in Threshholds, new_speed \in Speeds :
           SmoothedValueNew(value, new_threshhold, new_speed)

SmoothedNext ==
    \/ \E offset \in DesiredOffsets : move_desired(offset)
    \/ \E delta_time \in DeltaTimes : SmoothedValueUpdate(delta_time)

SmoothedSpec == SmoothedInit /\ [][SmoothedNext]_vars

----------------------------------------------------------------------------
(* Properties of GlobalContext. *)

OperationNames ==
    { "new", "prepare", "upload", "update_screen_size_resources",
      "update_shadow_size_textures", "update_texture_sampler", "update_msaa",
      "update_screen_space_anti_aliasing" }

\* C1: in every reachable state each of the global, light culling, forward
\* and debug bind groups binds the current instance of every buffer,
\* texture and sampler it references.
BindGroupsReferenceCurrentResources ==
    /\ global_bind_group.global_uniforms_buffer = global_uniforms_buffer.id
    /\ global_bind_group.nearest_sampler = nearest_sampler.id
    /\ global_bind_group.linear_sampler = linear_sampler.id
    /\ global_bind_group.texture_sampler = texture_sampler.id
    /\ light_culling_bind_group.point_light_data_buffer = point_light_data_buffer.id
    /\ light_culling_bind_group.tile_light_count_texture = tile_light_count_texture.id
    /\ light_culling_bind_group.tile_light_indices_buffer = tile_light_indices_buffer.id
    /\ forward_bind_group.directional_light_uniforms_buffer
           = directional_light_uniforms_buffer.id
    /\ forward_bind_group.point_light_data_buffer = point_light_data_buffer.id
    /\ forward_bind_group.tile_light_count_texture = tile_light_count_texture.id
    /\ forward_bind_group.tile_light_indices_buffer = tile_light_indices_buffer.id
    /\ forward_bind_group.directional_shadow_map_texture = directional_shadow_map_texture.id
    /\ forward_bind_group.point_shadow_map_textures = point_shadow_map_textures.id
    /\ debug_bind_group.debug_uniforms_buffer = debug_uniforms_buffer.id
    /\ debug_bind_group.picker_buffer_texture = picker_buffer_texture.id
    /\ debug_bind_group.directional_shadow_map_texture = directional_shadow_map_texture.id
    /\ debug_bind_group.tile_light_count_texture = tile_light_count_texture.id
    /\ debug_bind_group.point_shadow_map_textures = point_shadow_map_textures.id

\* An upload has reallocated the point light buffer after a settings update
\* replaced textures or samplers.
ReallocatedAfterUpdate ==
    /\ op.name = "upload"
    /\ op.recreated
    /\ updates = 1
    /\ point_light_data_buffer.capacity > InitialPointLightCapacity * SizeOfPointLightData

\* Number of buffers an upload step has reallocated.
ReallocatedBuffers ==
    (IF global_uniforms_buffer'.id # global_uniforms_buffer.id THEN 1 ELSE 0)
    + (IF directional_light_uniforms_buffer'.id # directional_light_uniforms_buffer.id
       THEN 1 ELSE 0)
    + (IF point_light_data_buffer'.id # point_light_data_buffer.id THEN 1 ELSE 0)
    + (IF debug_uniforms_buffer'.id # debug_uniforms_buffer.id THEN 1 ELSE 0)

UploadStep ==
    /\ (ReallocatedBuffers > 0) <=> op'.recreated
    /\ (ReallocatedBuffers > 0) <=> (global_bind_group' # global_bind_group)
    /\ (ReallocatedBuffers > 0) <=> (light_culling_bind_group' # light_culling_bind_group)
    /\ (ReallocatedBuffers > 0) <=> (forward_bind_group' # forward_bind_group)
    /\ (ReallocatedBuffers > 0) <=> (debug_bind_group' # debug_bind_group)
    \* every bind group is created at most once
    /\ allocated' - allocated = ReallocatedBuffers + (IF ReallocatedBuffers > 0 THEN 4 ELSE 0)
    \* a frame whose lights fit the buffer rebuilds nothing
    /\ Len(point_light_data) * SizeOfPointLightData <= point_light_data_buffer.capacity
           => UNCHANGED bind_groups

\* C2: an upload rebuilds the global, light culling, forward and debug bind
\* groups exactly when one of its buffer writes reallocated, and then once;
\* frames whose light count fits the buffer (and prepare itself) rebuild no
\* bind group.
UploadRebuildsIffReallocated ==
    [][/\ op'.name = "upload" => UploadStep
       /\ op'.name = "prepare" => UNCHANGED bind_groups]_vars

\* The second frame uploads the same large light list the first frame
\* reallocated for, without any reallocation.
SteadyFrameAfterGrowth ==
    /\ op.name = "upload"
    /\ ~op.recreated
    /\ frames = 2
    /\ Len(point_light_data) > InitialPointLightCapacity
    /\ point_light_data_buffer.capacity >= Len(point_light_data) * SizeOfPointLightData

----------------------------------------------------------------------------
(* Dimensions and replacement of the screen size dependent resources. *)

CeilDiv(a, b) == IF a % b = 0 THEN a \div b ELSE (a \div b) + 1

SameDimensions(a, b) == a.width = b.width /\ a.height = b.height

HasSize(texture, size) == texture.width = size.width /\ texture.height = size.height

\* The device created the object with this id during the current step.
IsNew(id) == id > allocated /\ id <= allocated'

\* The picker attachments: the screen height, and the smallest width of at
\* least the screen width whose row of Rg32Uint texels is a multiple of
\* COPY_BYTES_PER_ROW_ALIGNMENT bytes.
HasPickerSize(texture, size) ==
    /\ texture.height = size.height
    /\ texture.width >= size.width
    /\ (texture.width * PickerBlockSize) % COPY_BYTES_PER_ROW_ALIGNMENT = 0
    /\ (texture.width - size.width) * PickerBlockSize < COPY_BYTES_PER_ROW_ALIGNMENT

HasTileGridSize(texture, size) ==
    /\ texture.width = CeilDiv(size.width, LIGHT_TILE_SIZE)
    /\ texture.height = CeilDiv(size.height, LIGHT_TILE_SIZE)

\* C3 as stated: forward color, forward depth, picker buffer, picker depth,
\* interface buffer and the tile light count texture all have the same pixel
\* dimensions.
AllScreenSizeResourcesShareDimensions ==
    /\ SameDimensions(forward_color_texture, forward_depth_texture)
    /\ SameDimensions(forward_color_texture, picker_buffer_texture)
    /\ SameDimensions(forward_color_texture, picker_depth_texture)
    /\ SameDimensions(forward_color_texture, interface_buffer_texture)
    /\ SameDimensions(forward_color_texture, tile_light_count_texture)

\* C3 amended: in every reachable state forward color, forward depth and
\* the interface buffer have exactly the screen size; picker buffer and
\* picker depth share one size, the screen height by the screen width padded
\* up to the copy row alignment; the tile light count texture has one texel
\* per light tile, ceil(width / 16) by ceil(height / 16).
ScreenSizeResourceDimensions ==
    /\ HasSize(forward_color_texture, screen_size)
    /\ HasSize(forward_depth_texture, screen_size)
    /\ HasSize(interface_buffer_texture, screen_size)
    /\ HasPickerSize(picker_buffer_texture, screen_size)
    /\ SameDimensions(picker_buffer_texture, picker_depth_texture)
    /\ HasTileGridSize(tile_light_count_texture, screen_size)

\* A resize to 40x17 has produced picker attachments wider than the screen
\* and a 3x2 tile light count texture.
ResizedToUnalignedWidth ==
    /\ op.name = "update_screen_size_resources"
    /\ screen_size = ScreenSize(40, 17)
    /\ forward_color_texture.width = 40
    /\ picker_buffer_texture.width = 64
    /\ tile_light_count_texture.width = 3
    /\ tile_light_count_texture.height = 2

ScreenSizeDependentIds ==
    { forward_color_texture.id, forward_depth_texture.id, picker_buffer_texture.id,
      picker_depth_texture.id, interface_buffer_texture.id, tile_light_count_texture.id }

ScreenSizeDependentIdsAfter ==
    { forward_color_texture'.id, forward_depth_texture'.id, picker_buffer_texture'.id,
      picker_depth_texture'.id, interface_buffer_texture'.id, tile_light_count_texture'.id }

\* C4 as stated: update_screen_size_resources, update_msaa and
\* update_screen_space_anti_aliasing each recreate all six screen size
\* dependent resources.
EveryChangeRecreatesAllScreenSizeResources ==
    [][op'.name \in { "update_screen_size_resources", "update_msaa",
                      "update_screen_space_anti_aliasing" }
          => \A id \in ScreenSizeDependentIdsAfter : IsNew(id)]_vars

\* C4 amended: update_screen_size_resources recreates all six screen size
\* dependent resources in the same operation; update_msaa and
\* update_screen_space_anti_aliasing recreate the forward color and forward
\* depth textures together and keep the picker buffer, picker depth,
\* interface buffer and tile light count textures.
ScreenSizeResourcesRecreatedTogether ==
    [][/\ op'.name = "update_screen_size_resources"
          => \A id \in ScreenSizeDependentIdsAfter : IsNew(id)
       /\ op'.name \in { "update_msaa", "update_screen_space_anti_aliasing" }
          => /\ IsNew(forward_color_texture'.id)
             /\ IsNew(forward_depth_texture'.id)
             /\ UNCHANGED <<picker_buffer_texture, picker_depth_texture,
                            interface_buffer_texture, tile_light_count_texture>>]_vars

\* update_msaa has replaced the forward textures of a context whose other
\* screen size textures are those of the construction.
MsaaChangedAfterConstruction ==
    /\ op.name = "update_msaa"
    /\ msaa = "X4"
    /\ forward_color_texture.sample_count = 4
    /\ forward_color_texture.id > debug_bind_group.id
    /\ interface_buffer_texture.id < debug_bind_group.id

----------------------------------------------------------------------------
(* Light tile grid. *)

\* C6: for every screen size calculate_light_tile_count returns
\* ceil(width / 16) and ceil(height / 16).
LightTileCountIsCeiling ==
    fn_pc = "returned"
        => /\ fn_result.x = CeilDiv(fn_arg.width, LIGHT_TILE_SIZE)
           /\ fn_result.y = CeilDiv(fn_arg.height, LIGHT_TILE_SIZE)

\* The tile count of a 17x33 screen has been computed: 2 by 3 tiles.
LightTileCountOf17x33 ==
    /\ fn_pc = "returned"
    /\ fn_arg = ScreenSize(17, 33)
    /\ fn_result = [x |-> 2, y |-> 3]

TileCountX == CeilDiv(screen_size.width, LIGHT_TILE_SIZE)

TileCountY == CeilDiv(screen_size.height, LIGHT_TILE_SIZE)

\* C7 as stated: the tile index buffer holds exactly
\* tile_count_x * tile_count_y records for the current screen size, both
\* counts are at least 1, and the tile light count texture is tile_count_x
\* by tile_count_y.
TileIndexBufferHoldsTileCountRecords ==
    /\ tile_light_indices_buffer.capacity = TileCountX * TileCountY * SizeOfTileLightIndices
    /\ TileCountX >= 1
    /\ TileCountY >= 1
    /\ tile_light_count_texture.width = TileCountX
    /\ tile_light_count_texture.height = TileCountY

TileGridMatchesScreenSize ==
    /\ tile_light_indices_buffer.capacity
           = Max(TileCountX * TileCountY, 1) * SizeOfTileLightIndices
    /\ TileCountX >= 1 <=> screen_size.width >= 1
    /\ TileCountY >= 1 <=> screen_size.height >= 1
    /\ tile_light_count_texture.width = TileCountX
    /\ tile_light_count_texture.height = TileCountY

\* C7 amended: after new and after every operation the tile index buffer
\* holds max(tile_count_x * tile_count_y, 1) records for the current screen
\* size, a tile count is at least 1 exactly when that side of the screen is
\* at least one pixel (it is 0 for an empty side), the tile light count
\* texture is tile_count_x by tile_count_y, and every
\* update_screen_size_resources creates both anew.
TileGridFollowsScreenSize ==
    /\ []TileGridMatchesScreenSize
    /\ [][op'.name = "update_screen_size_resources"
             => /\ IsNew(tile_light_indices_buffer'.id)
                /\ IsNew(tile_light_count_texture'.id)]_vars

\* A context constructed at 1920x1080 has been resized to an empty screen:
\* no tiles, and a tile index buffer of one record.
ResizedToEmptyScreen ==
    /\ op.name = "update_screen_size_resources"
    /\ screen_size = ScreenSize(0, 0)
    /\ tile_light_count_texture.width = 0
    /\ tile_light_indices_buffer.capacity = SizeOfTileLightIndices
    /\ tile_light_indices_buffer.id > global_bind_group.id

----------------------------------------------------------------------------
(* Narrow updates. *)

\* C8: update_shadow_size_textures replaces the directional shadow texture
\* and the point shadow cube array (with both shadow sizes) and rebuilds the
\* forward and debug bind groups; the screen size dependent textures, the
\* tile index buffer, the anti-aliasing resources, the samplers, the buffers
\* and the global and light culling bind groups are unchanged.
UpdateShadowSizeTexturesEffect ==
    [][op'.name = "update_shadow_size_textures"
          => /\ IsNew(directional_shadow_map_texture'.id)
             /\ IsNew(point_shadow_map_textures'.id)
             /\ HasSize(directional_shadow_map_texture', directional_shadow_size')
             /\ HasSize(point_shadow_map_textures', point_shadow_size')
             /\ IsNew(forward_bind_group'.id)
             /\ IsNew(debug_bind_group'.id)
             /\ UNCHANGED <<forward_textures, screen_textures, anti_aliasing_resources,
                            samplers, fixed_buffers, point_light_data_buffer,
                            global_bind_group, light_culling_bind_group, settings,
                            staged>>]_vars

\* The shadow detail has been raised after construction.
ShadowDetailRaised ==
    /\ op.name = "update_shadow_size_textures"
    /\ point_shadow_size.width = point_shadow_resolution("Ultra")
    /\ point_shadow_map_textures.width = point_shadow_resolution("Ultra")
    /\ directional_shadow_map_texture.width = directional_shadow_resolution("Ultra")
    /\ forward_bind_group.id > light_culling_bind_group.id

\* C9: update_texture_sampler replaces the texture sampler and the global
\* bind group only: the screen size textures, the shadow textures, the
\* buffers, the nearest and linear samplers, the anti-aliasing resources and
\* the light culling, forward and debug bind groups are unchanged.
UpdateTextureSamplerEffect ==
    [][op'.name = "update_texture_sampler"
          => /\ IsNew(texture_sampler'.id)
             /\ texture_sampler'.type = op'.argument.type
             /\ IsNew(global_bind_group'.id)
             /\ UNCHANGED <<forward_textures, screen_textures, shadow_textures,
                            anti_aliasing_resources, fixed_buffers, point_light_data_buffer,
                            nearest_sampler, linear_sampler, light_culling_bind_group,
                            forward_bind_group, debug_bind_group, settings, staged>>]_vars

\* The texture sampler has been switched to nearest filtering.
TextureSamplerChanged ==
    /\ op.name = "update_texture_sampler"
    /\ texture_sampler.type = "Nearest"
    /\ texture_sampler.id > debug_bind_group.id
    /\ global_bind_group.texture_sampler = texture_sampler.id

\* What neither update_msaa nor update_screen_space_anti_aliasing touches.
OutsideAntiAliasingUpdates ==
    <<shadow_textures, screen_textures, samplers, bind_groups, fixed_buffers,
      point_light_data_buffer, staged>>

\* C10: update_msaa changes only the msaa setting, the forward color and
\* depth textures and the resolved color texture;
\* update_screen_space_anti_aliasing changes only the anti-aliasing mode,
\* the forward color and depth textures, the resolved color texture and the
\* anti-aliasing resources; neither replaces shadow textures, picker,
\* interface or tile textures, the tile index buffer, samplers or a bind
\* group.
AntiAliasingUpdatesAreNarrow ==
    [][/\ op'.name = "update_msaa"
          => /\ msaa' = op'.argument.msaa
             /\ UNCHANGED <<screen_space_anti_aliasing, anti_aliasing_resources,
                            OutsideAntiAliasingUpdates>>
       /\ op'.name = "update_screen_space_anti_aliasing"
          => /\ screen_space_anti_aliasing' = op'.argument.screen_space_anti_aliasing
             /\ UNCHANGED <<msaa, OutsideAntiAliasingUpdates>>]_vars

\* CMAA2 has been selected after construction on a multisampled context.
Cmaa2Selected ==
    /\ op.name = "update_screen_space_anti_aliasing"
    /\ screen_space_anti_aliasing = "Cmaa2"
    /\ msaa = "X4"
    /\ anti_aliasing_resources.variant = "Cmaa2"
    /\ anti_aliasing_resources.bind_group.id > debug_bind_group.id
    /\ forward_color_texture.id > debug_bind_group.id

----------------------------------------------------------------------------
(* Growth of the buffers written by upload. *)

\* The bytes the point light list of the frame occupies.
StagedPointLightBytes == Len(point_light_data) * SizeOfPointLightData

\* C11: no step decreases the backing capacity of a buffer that upload
\* writes, whatever the sizes of the successive frames' data; an upload whose
\* data fits the capacities reports no reallocation and keeps the buffers.
BufferCapacityNeverDecreases ==
    [][/\ point_light_data_buffer'.capacity >= point_light_data_buffer.capacity
       /\ global_uniforms_buffer'.capacity >= global_uniforms_buffer.capacity
       /\ directional_light_uniforms_buffer'.capacity
              >= directional_light_uniforms_buffer.capacity
       /\ debug_uniforms_buffer'.capacity >= debug_uniforms_buffer.capacity
       /\ op'.name = "upload"
          => /\ point_light_data_buffer'.capacity >= StagedPointLightBytes
             /\ StagedPointLightBytes <= point_light_data_buffer.capacity
                    => /\ ~op'.recreated
                       /\ UNCHANGED <<point_light_data_buffer, fixed_buffers>>]_vars

\* A frame of 130 lights has been followed by a frame of 3 lights: the
\* buffer still has the capacity it grew to.
SmallFrameAfterLargeFrame ==
    /\ op.name = "upload"
    /\ op.written
    /\ frames = 2
    /\ Len(point_light_data) = 3
    /\ point_light_data_buffer.capacity >= 130 * SizeOfPointLightData

\* C12: the first upload of a context constructed with room for 128 point
\* lights, given 130 lights, reallocates the point light buffer once and
\* rebuilds the light culling and forward bind groups once (with the global
\* and debug bind groups: five new device objects in all); a later upload of
\* 130 lights into the grown buffer reallocates nothing and rebuilds nothing.
Upload130LightsReallocatesOnce ==
    [][op'.name = "upload" /\ Len(point_light_data) = 130
          => /\ frames = 0
                 => /\ op'.recreated
                    /\ IsNew(point_light_data_buffer'.id)
                    /\ point_light_data_buffer'.capacity >= 130 * SizeOfPointLightData
                    /\ IsNew(light_culling_bind_group'.id)
                    /\ IsNew(forward_bind_group'.id)
                    /\ light_culling_bind_group'.point_light_data_buffer
                           = point_light_data_buffer'.id
                    /\ forward_bind_group'.point_light_data_buffer
                           = point_light_data_buffer'.id
                    /\ allocated' = allocated + 5
             /\ point_light_data_buffer.capacity > 128 * SizeOfPointLightData
                 => /\ ~op'.recreated
                    /\ allocated' = allocated
                    /\ UNCHANGED <<point_light_data_buffer, bind_groups>>]_vars

\* Two frames of 130 lights have been uploaded: the first grew the buffer,
\* the second left the bind groups of the first in place.
SecondFrameOf130Lights ==
    /\ op.name = "upload"
    /\ op.written
    /\ ~op.recreated
    /\ frames = 2
    /\ updates = 0
    /\ Len(point_light_data) = 130
    /\ light_culling_bind_group.point_light_data_buffer = point_light_data_buffer.id
    /\ light_culling_bind_group.id = point_light_data_buffer.id + 2

----------------------------------------------------------------------------
(* Frames without point lights. *)

PointLightCountMatchesList == global_uniforms.point_light_count = Len(point_light_data)

\* C14: the point_light_count uniform always equals the length of the
\* prepared point light list; preparing an instruction without shadow
\* casters and without plain point lights stages a count of 0, and the
\* upload of such a frame skips the point light write, keeps the point light
\* buffer and, when no uniform buffer was reallocated, every bind group.
ZeroPointLightsSkipWrite ==
    /\ []PointLightCountMatchesList
    /\ [][/\ op'.name = "prepare" /\ op'.argument.casters + op'.argument.plain = 0
             => /\ global_uniforms'.point_light_count = 0
                /\ point_light_data' = << >>
          /\ op'.name = "upload"
             => /\ op'.written <=> global_uniforms.point_light_count > 0
                /\ global_uniforms.point_light_count = 0
                       => /\ UNCHANGED point_light_data_buffer
                          /\ UNCHANGED fixed_buffers
                                 => ~op'.recreated /\ UNCHANGED bind_groups]_vars

\* A frame without point lights has been uploaded after a frame that grew
\* the point light buffer.
EmptyFrameAfterLargeFrame ==
    /\ op.name = "upload"
    /\ ~op.written
    /\ frames = 2
    /\ global_uniforms.point_light_count = 0
    /\ point_light_data = << >>
    /\ point_light_data_buffer.capacity >= 130 * SizeOfPointLightData

----------------------------------------------------------------------------
(* Anti-aliasing resources. *)

Cmaa2ResourceFields ==
    { "variant", "edges_textures", "control_buffer", "shape_candidates_buffer",
      "indirect_buffer", "deferred_blend_item_list_heads_buffer",
      "deferred_blend_item_list_buffer", "deferred_blend_location_list_buffer",
      "bind_group" }

\* C18: in every reachable state the anti-aliasing resources are the CMAA2
\* resource set exactly when the mode is Cmaa2, the FXAA variant (holding
\* only its color with luma attachment) exactly when the mode is Fxaa, and
\* None exactly when the mode is Off.
AntiAliasingResourcesMatchMode ==
    /\ anti_aliasing_resources.variant = "Cmaa2" <=> screen_space_anti_aliasing = "Cmaa2"
    /\ anti_aliasing_resources.variant = "Fxaa" <=> screen_space_anti_aliasing = "Fxaa"
    /\ anti_aliasing_resources.variant = "None" <=> screen_space_anti_aliasing = "Off"
    /\ anti_aliasing_resources.variant = "Cmaa2"
           => DOMAIN anti_aliasing_resources = Cmaa2ResourceFields
    /\ anti_aliasing_resources.variant = "Fxaa"
           => /\ DOMAIN anti_aliasing_resources = { "variant", "color_with_luma_texture" }
              /\ anti_aliasing_resources.color_with_luma_texture.type = "ColorAttachment"
    /\ anti_aliasing_resources.variant = "None"
           => DOMAIN anti_aliasing_resources = { "variant" }

\* Number of anti-aliasing objects created by the construction, read off the
\* id of the global bind group of a context whose global bind group and msaa
\* are still those of the construction.
ConstructedAntiAliasingCount ==
    global_bind_group.id
        - (ScreenSizeTextureCount + 2 + ResolvedColorTextureCount(msaa) + 9 + 1)

\* A context constructed with CMAA2 has been switched to FXAA: the CMAA2
\* resource set is gone and the FXAA attachment is new.
SwitchedFromCmaa2ToFxaa ==
    /\ op.name = "update_screen_space_anti_aliasing"
    /\ ConstructedAntiAliasingCount = AntiAliasingResourceCount("Cmaa2")
    /\ screen_space_anti_aliasing = "Fxaa"
    /\ anti_aliasing_resources.variant = "Fxaa"
    /\ anti_aliasing_resources.color_with_luma_texture.id > debug_bind_group.id

----------------------------------------------------------------------------
(* Point lights and the point shadow pass. *)

\* The prepared list holds exactly the lights of `instruction`: the shadow
\* casters in instruction order, tagged 1, 2, ..., then the plain point
\* lights in instruction order, tagged 0.
ListsLightsOf(instruction) ==
    /\ Len(point_light_data) = instruction.casters + instruction.plain
    /\ \A k \in 1..instruction.casters :
           /\ point_light_data[k].light = <<"point_light_shadow_caster", k - 1>>
           /\ point_light_data[k].texture_index = k
    /\ \A k \in 1..instruction.plain :
           /\ point_light_data[instruction.casters + k].light = <<"point_light", k - 1>>
           /\ point_light_data[instruction.casters + k].texture_index = 0

\* A render pass of the frame has been begun for a shadow caster of the
\* frame's instruction.
PassOfCaster ==
    /\ pass.variant = "Some"
    /\ pass.pass_data.shadow_caster_index < instructions.casters

\* The tags of the entries of the point light list that hold the caster
\* whose uniforms the pass binds.
TagsOfRenderedCaster ==
    { point_light_data[k].texture_index :
          k \in { j \in 1..Len(point_light_data) :
                      point_light_data[j].light = pass.uniforms.caster } }

\* C13 as stated: the list is the shadow casters followed by the plain point
\* lights, rebuilt each frame, and the shadow caster tagged N is rendered
\* into cube array slot N.
CasterTaggedNRendersIntoSlotN ==
    /\ op.name = "prepare" => ListsLightsOf(op.argument)
    /\ PassOfCaster => TagsOfRenderedCaster = { pass.view.slot }

\* C13 amended: after prepare the point light list holds exactly the shadow
\* casters of the instruction in order followed by its plain point lights in
\* order and nothing of an earlier frame; a plain light is tagged 0 and the
\* k-th shadow caster (counting from 0) is tagged k + 1, while its render
\* passes bind its uniforms and target cube array slot k: the caster tagged
\* N is rendered into slot N - 1.
CasterTaggedNRendersIntoSlotBelowN ==
    /\ op.name = "prepare" => ListsLightsOf(op.argument)
    /\ PassOfCaster
           => /\ pass.uniforms.caster
                     = <<"point_light_shadow_caster", pass.pass_data.shadow_caster_index>>
              /\ pass.uniforms.face_index = pass.view.face
              /\ pass.view.slot = pass.pass_data.shadow_caster_index
              /\ TagsOfRenderedCaster = { pass.view.slot + 1 }

\* The second shadow caster of a frame is rendered in a frame of three
\* lights that follows a frame of 130 lights.
SecondCasterRenderedAfterLargerFrame ==
    /\ pass.variant = "Some"
    /\ pass.pass_data = [shadow_caster_index |-> 0, face_index |-> 3]
    /\ instructions = RenderInstruction(1, 2)
    /\ Len(point_light_data) = 3
    /\ point_light_data[1].texture_index = 1
    /\ pass.view.slot = 0
    /\ Cardinality(buffer_data) = 2 * NUMBER_FACES

\* C17: the record size of the context is the size of PassUniforms padded to
\* the uniform offset alignment; create_pass for light l and face f computes
\* the dynamic offset (l * 6 + f) * aligned_size, the record at that offset
\* lies inside the uniforms buffer, and the byte ranges of the records of
\* two passes with distinct (l, f) do not overlap.
PointShadowOffsetsDoNotAlias ==
    /\ \E alignment \in UniformAlignments :
           /\ aligned_size % alignment = 0
           /\ aligned_size >= SizeOfPassUniforms
           /\ aligned_size - SizeOfPassUniforms < alignment
    /\ pass.variant = "Some"
           => /\ pass.dynamic_offset
                     = (pass.pass_data.shadow_caster_index * 6 + pass.pass_data.face_index)
                           * aligned_size
              /\ pass.dynamic_offset + SizeOfPassUniforms <= uniforms_buffer.capacity
    /\ (/\ pass.variant = "Some"
        /\ previous_pass.variant = "Some"
        /\ pass.pass_data # previous_pass.pass_data)
           => \/ pass.dynamic_offset + SizeOfPassUniforms <= previous_pass.dynamic_offset
              \/ previous_pass.dynamic_offset + SizeOfPassUniforms <= pass.dynamic_offset

\* The passes of the last face of light 0 and of the first face of light 1
\* have been begun on a device with an alignment of 32 bytes.
AdjacentLightPassesCreated ==
    /\ aligned_size = SizeOfPassUniforms
    /\ pass.variant = "Some"
    /\ previous_pass.variant = "Some"
    /\ previous_pass.pass_data = [shadow_caster_index |-> 0, face_index |-> 5]
    /\ pass.pass_data = [shadow_caster_index |-> 1, face_index |-> 0]
    /\ pass.dynamic_offset = 6 * SizeOfPassUniforms

----------------------------------------------------------------------------
(* Properties of ForwardModelDrawer. *)

\* The draws of the frame's batches on the path `support` selects, with the
\* commands the drawer's indirect buffer holds.
DrawsOfPath(support) == DrawBatches(support, model_batches, models, 1).draws

RECURSIVE SumOfCounts(_, _)
SumOfCounts(batches, index) ==
    IF index > Len(batches) THEN 0 ELSE batches[index].count + SumOfCounts(batches, index + 1)

NonEmptyBatches(batches) == { i \in 1..Len(batches) : batches[i].count # 0 }

\* C15: once a frame's model instructions are prepared and uploaded, the
\* draws the device executes for the frame's batches on the
\* multi-draw-indirect path are, in order and content, the draws of the
\* per-instruction path, and draw submits exactly these; a batch with count 0
\* records no draw call on either path.
IndirectAndFallbackDrawsAgree ==
    forward_pc = "drawn" =>
        /\ DrawsOfPath(TRUE) = DrawsOfPath(FALSE)
        /\ submitted = DrawsOfPath(TRUE)
        /\ \A i \in 1..Len(draw_calls) :
               draw_calls[i].call = "multi_draw_indirect" => draw_calls[i].count # 0
        /\ Len(draw_calls) =
               IF multi_draw_indirect_support
               THEN Cardinality(NonEmptyBatches(model_batches))
               ELSE SumOfCounts(model_batches, 1)

\* A frame with an empty batch between two non-empty batches has been drawn
\* on the multi-draw-indirect path.
DrawnFrameWithEmptyBatch ==
    /\ forward_pc = "drawn"
    /\ multi_draw_indirect_support
    /\ Len(model_batches) = 3
    /\ Len(draw_calls) = 2
    /\ Len(submitted) = 3

NothingUploaded == [instance_data |-> 0, instance_indices |-> 0, draw_commands |-> 0]

\* C16: in a frame whose model instruction list is empty, the upload of the
\* forward model drawer transfers no element to any of its buffers, whatever
\* the earlier frames were.
EmptyModelFrameUploadsNothing ==
    (forward_pc \in { "uploaded", "drawn" } /\ models = << >>) => uploaded = NothingUploaded

\* C20: the drawer's multi_draw_indirect_support is the capability probed at
\* construction and no prepare, upload or draw changes it; every draw call
\* recorded is of the kind it selects, so a device without the capability
\* never records a multi_draw_indirect.
DrawPathResolvedAtConstruction ==
    /\ [](multi_draw_indirect_support = supports_multidraw_indirect(capabilities))
    /\ [][multi_draw_indirect_support' = multi_draw_indirect_support]_vars
    /\ [](\A i \in 1..Len(draw_calls) :
              draw_calls[i].call =
                  IF capabilities.multidraw_indirect THEN "multi_draw_indirect" ELSE "draw")

\* A device without multi-draw-indirect support has drawn a frame of one
\* instruction after the frame that made the drawer's buffers grow.
FallbackDrawAfterLargerFrame ==
    /\ ~capabilities.multidraw_indirect
    /\ forward_pc = "drawn"
    /\ drawer_allocated > 7
    /\ Len(models) = 1
    /\ Len(draw_calls) = 1

----------------------------------------------------------------------------
(* Properties of the bind group layouts. *)

\* C19: the constructor of the layout of a role runs at most once, a layout
\* once stored is never replaced, and every call of the layout function
\* returns the stored layout, also when calls overlap before the first
\* initialisation has completed.
LayoutsCreatedOnce ==
    /\ [](\A role \in LayoutRoles : LAYOUT[role].created <= 1)
    /\ [](\A thread \in LayoutThreads :
              layout_callers[thread].pc = "returned" =>
                  /\ layout_callers[thread].result # None
                  /\ layout_callers[thread].result = LAYOUT[layout_callers[thread].role].value)
    /\ [][\A role \in LayoutRoles :
              LAYOUT[role].value # None => LAYOUT'[role].value = LAYOUT[role].value]_vars

\* Two calls for the same role, on two threads, that both began before the
\* role's layout was initialised have returned.
ConcurrentFirstCallsReturned ==
    /\ \A thread \in LayoutThreads :
           /\ layout_callers[thread].pc = "returned"
           /\ layout_callers[thread].first
           /\ layout_callers[thread].role = "cmaa2_output"
    /\ layout_callers[1].result = layout_callers[2].result

----------------------------------------------------------------------------
(* Properties of the frames of the renderer. *)

\* A step of the point shadow pass context or of the forward model drawer.
PassOperationStep ==
    \/ point_shadow_context' # point_shadow_context
    \/ point_shadow_passes' # point_shadow_passes
    \/ pass_allocated' # pass_allocated
    \/ frame_pc' \in { "prepared", "uploaded" } /\ frame_pc' # frame_pc
    \/ forward_pc' \in { "prepared", "uploaded", "drawn" } /\ forward_pc' # forward_pc
    \/ forward_model_buffers' # forward_model_buffers
    \/ forward_model_staged' # forward_model_staged
    \/ forward_model_draw' # forward_model_draw

\* C21: no operation of the point shadow pass context or of the forward
\* model drawer changes a texture, buffer, sampler, bind group or size of
\* the GlobalContext it borrows.
PassesLeaveGlobalContext ==
    [][PassOperationStep =>
           UNCHANGED <<forward_textures, screen_textures, shadow_textures, fixed_buffers,
                       point_light_data_buffer, anti_aliasing_resources, samplers,
                       bind_groups>>]_vars

\* The passes of a frame have been begun and drawn with a GlobalContext
\* whose shadow maps were replaced by one of its own methods.
PassesRanAfterShadowUpdate ==
    /\ updates > 0
    /\ pass # NoPass
    /\ forward_pc = "drawn"
    /\ draw_calls # << >>

GlobalContextUploadStep == frames' # frames

PointShadowPrepareStep == frame_pc' = "prepared" /\ frame_pc # "prepared"

PointShadowUploadStep == frame_pc' = "uploaded" /\ frame_pc # "uploaded"

ForwardModelPrepareStep == forward_pc' = "prepared" /\ forward_pc # "prepared"

ForwardModelUploadStep == forward_pc' = "uploaded" /\ forward_pc # "uploaded"

RecordingStep ==
    \/ pass' # NoPass /\ pass' # pass
    \/ forward_pc' = "drawn" /\ forward_pc # "drawn"

----------------------------------------------------------------------------
(* Properties of the staged lists of ForwardModelDrawer. *)

\* C23: the instance list, the instance index list and the draw command list
\* always have the same length; once a non-empty list of n model
\* instructions is prepared, each has n entries, the i-th index is i and the
\* i-th command draws one instance, i, of the vertex range of the i-th
\* instruction (i counted from 0).
PreparedListsMatchInstructions ==
    /\ Len(instance_data) = Len(instance_indices)
    /\ Len(instance_data) = Len(draw_commands)
    /\ (forward_pc \in { "prepared", "uploaded", "drawn" } /\ models # << >>) =>
           /\ Len(instance_data) = Len(models)
           /\ \A i \in 1..Len(models) :
                  /\ instance_data[i].world = models[i].model_matrix
                  /\ instance_indices[i] = i - 1
                  /\ draw_commands[i].vertex_count = models[i].vertex_count
                  /\ draw_commands[i].instance_count = 1
                  /\ draw_commands[i].first_vertex = models[i].vertex_offset
                  /\ draw_commands[i].first_instance = i - 1

\* A list of two instructions has been prepared after a frame that uploaded
\* three.
TwoInstructionsPreparedAfterThree ==
    /\ forward_pc = "prepared"
    /\ Len(models) = 2
    /\ Len(draw_commands) = 2
    /\ uploaded.draw_commands = 3

----------------------------------------------------------------------------
(* Properties of the uniforms of the point shadow pass. *)

\* The uniforms of face f of caster l of the frame's instruction.
UniformsOfFrame(l, f) ==
    [caster |-> <<"point_light_shadow_caster", l>>, face_index |-> f,
     instruction |-> instructions]

\* C24: once the frame's instruction with N shadow casters is prepared, the
\* uniform list has 6 * N records, the record of light l and face f is at
\* index l * 6 + f and is serialized at byte offset (l * 6 + f) * aligned_size,
\* the dynamic offset create_pass binds for (l, f); a pass of a caster of the
\* frame reads the record of its light and face prepared in this frame.
PassReadsRecordOfItsLightAndFace ==
    /\ frame_pc \in { "prepared", "uploaded" } =>
           /\ Len(uniforms_data) = 6 * instructions.casters
           /\ \A l \in 0..(instructions.casters - 1), f \in 0..5 :
                  /\ uniforms_data[l * 6 + f + 1] = UniformsOfFrame(l, f)
                  /\ [start |-> (l * 6 + f) * aligned_size, uniform |-> UniformsOfFrame(l, f)]
                         \in buffer_data
                  /\ dynamic_offset([shadow_caster_index |-> l, face_index |-> f], aligned_size)
                         = (l * 6 + f) * aligned_size
    /\ PassOfCaster =>
           pass.uniforms
               = UniformsOfFrame(pass.pass_data.shadow_caster_index, pass.pass_data.face_index)

\* A pass of the only caster of a frame has been begun while the buffer
\* still holds the records an earlier frame wrote for a second caster.
PassBegunOverRecordsOfEarlierFrame ==
    /\ PassOfCaster
    /\ instructions.casters = 1
    /\ \E r \in uniforms_buffer.contents :
           /\ r.uniform.instruction # instructions
           /\ r.uniform.caster = <<"point_light_shadow_caster", 1>>

\* C25: the uniforms buffer holds NUMBER_OF_POINT_LIGHTS_WITH_SHADOWS * 6
\* records of aligned_size bytes, aligned_size being the size of PassUniforms
\* rounded up to a multiple of the offset alignment; the record of every
\* light and face the buffer is sized for lies inside it, and no upload
\* replaces the buffer or the bind group made for it at construction.
UniformsBufferHoldsAllRecords ==
    /\ uniforms_buffer.capacity
           = NUMBER_OF_POINT_LIGHTS_WITH_SHADOWS * 6 * aligned_size
    /\ aligned_size >= SizeOfPassUniforms
    /\ \E alignment \in UniformAlignments :
           /\ aligned_size % alignment = 0
           /\ aligned_size < SizeOfPassUniforms + alignment
    /\ \A l \in 0..(NUMBER_OF_POINT_LIGHTS_WITH_SHADOWS - 1), f \in 0..5 :
           LET offset ==
                   dynamic_offset([shadow_caster_index |-> l, face_index |-> f], aligned_size)
           IN  offset + SizeOfPassUniforms <= uniforms_buffer.capacity
    /\ uniforms_buffer.id = 1
    /\ point_shadow_bind_group = create_point_shadow_bind_group(2, uniforms_buffer)
    /\ pass_allocated = 2

\* A frame without shadow casters has been uploaded into the buffer that
\* holds the records of an earlier frame.
UploadedAgainIntoSameBuffer ==
    /\ frame_pc = "uploaded"
    /\ instructions.casters = 0
    /\ uniforms_buffer.contents # {}
    /\ uniforms_buffer.contents = buffer_data

\* C26: a point shadow pass begun for light l and face f has no color
\* attachment, targets the depth view of face f of slot l of the current
\* cube array texture, clears depth to 1.0 and has the viewport of the point
\* shadow size; the point shadow size is at all times the size of the
\* current cube array texture, also after update_shadow_size_textures.
PointShadowPassTargetsItsFace ==
    /\ [](/\ point_shadow_size.width = point_shadow_map_textures.width
          /\ point_shadow_size.height = point_shadow_map_textures.height)
    /\ [][(pass' # pass /\ pass' # NoPass) =>
              /\ pass'.color_attachments = << >>
              /\ pass'.view =
                     [texture |-> point_shadow_map_textures.id,
                      slot |-> pass'.pass_data.shadow_caster_index,
                      face |-> pass'.pass_data.face_index]
              /\ pass'.depth_ops.load = <<"Clear", 1>>
              /\ pass'.viewport.x = 0
              /\ pass'.viewport.y = 0
              /\ pass'.viewport.width = point_shadow_map_textures.width
              /\ pass'.viewport.height = point_shadow_map_textures.height]_vars

\* A pass has been begun on the cube array texture that
\* update_shadow_size_textures created for the Ultra shadow detail.
PassBegunAfterShadowDetailChange ==
    /\ pass # NoPass
    /\ pass.view.texture = point_shadow_map_textures.id
    /\ pass.viewport.width = point_shadow_resolution("Ultra")
    /\ op.name = "upload"
    /\ updates = 1

----------------------------------------------------------------------------
(* CMAA2 resources. *)

\* A list buffer holds at least one element and at most MAX_BUFFER_SIZE
\* bytes, and exactly MAX_BUFFER_SIZE when `elements` elements need more.
ListBufferWithinCap(buffer, elements, element_size) ==
    /\ buffer.capacity >= element_size
    /\ buffer.capacity <= MAX_BUFFER_SIZE
    /\ elements * element_size > MAX_BUFFER_SIZE => buffer.capacity = MAX_BUFFER_SIZE

\* C27: for every screen size each CMAA2 list buffer (shape candidates,
\* blend item list heads, blend item list, blend location list) has a size
\* of at least one element and at most 128 MiB, an estimate above the cap
\* is allocated as 128 MiB, and the edge texture is ceil(width / 2) wide
\* and as high as the screen.
Cmaa2BuffersWithinCap ==
    anti_aliasing_resources.variant = "Cmaa2"
        => LET area == screen_size.width * screen_size.height
               resources == anti_aliasing_resources
           IN  /\ ListBufferWithinCap(resources.shape_candidates_buffer,
                                      area \div 4, SizeOfU32)
               /\ ListBufferWithinCap(resources.deferred_blend_item_list_heads_buffer,
                                      CeilDiv(screen_size.width, 2)
                                          * CeilDiv(screen_size.height, 2),
                                      SizeOfU32)
               /\ ListBufferWithinCap(resources.deferred_blend_item_list_buffer,
                                      area \div 2, 2 * SizeOfU32)
               /\ ListBufferWithinCap(resources.deferred_blend_location_list_buffer,
                                      (area + 3) \div 6, SizeOfU32)
               /\ resources.edges_textures.width = CeilDiv(screen_size.width, 2)
               /\ resources.edges_textures.height = screen_size.height

\* A CMAA2 context was resized to 16384 by 8192: the blend item list, whose
\* estimate is 512 MiB, has 128 MiB, and the edge texture is 8192 wide.
Cmaa2ClampedOn16384x8192 ==
    /\ anti_aliasing_resources.variant = "Cmaa2"
    /\ op.name = "update_screen_size_resources"
    /\ screen_size = ScreenSize(16384, 8192)
    /\ anti_aliasing_resources.deferred_blend_item_list_buffer.capacity = MAX_BUFFER_SIZE
    /\ anti_aliasing_resources.edges_textures.width = 8192

----------------------------------------------------------------------------
(* Pipelines of the forward model drawer. *)

\* C28: a draw that binds a pipeline binds the wireframe pipeline when
\* wireframe is requested and the solid pipeline otherwise; the wireframe
\* pipeline has line polygon mode if the device supports it and fill
\* otherwise, the solid pipeline has fill, and no operation changes either
\* pipeline after construction.
DrawBindsRequestedPipeline ==
    /\ [][(forward_pc' = "drawn" /\ forward_pc = "uploaded" /\ model_batches # << >>)
              => bound_pipeline' =
                     Some(IF show_wireframe' THEN wireframe_pipeline ELSE pipeline)]_vars
    /\ [](wireframe_pipeline.polygon_mode =
              IF capabilities.polygon_mode_line THEN "Line" ELSE "Fill")
    /\ [](pipeline.polygon_mode = "Fill")
    /\ [](wireframe_pipeline # pipeline)
    /\ [][UNCHANGED <<pipeline, wireframe_pipeline>>]_vars

\* A device without line polygon mode has drawn the second frame in
\* wireframe, after the frame that made the drawer's buffers grow: the
\* pipeline bound is the wireframe pipeline, with fill polygon mode.
WireframeDrawnFilledAfterLargerFrame ==
    /\ ~capabilities.polygon_mode_line
    /\ forward_pc = "drawn"
    /\ drawer_allocated > 7
    /\ Len(models) = 2
    /\ show_wireframe
    /\ bound_pipeline = Some(wireframe_pipeline)
    /\ bound_pipeline.value.polygon_mode = "Fill"

----------------------------------------------------------------------------
(* Length of the staged point light list. *)

----------------------------------------------------------------------------
(* Debug overrides of the light colors. *)

\* C30: in the debug build prepare stages black as the ambient color when
\* show_ambient_light is off and black as the directional light's color
\* when show_directional_light is off, and otherwise the colors of the
\* instruction; the other staged fields (screen size, point light count,
\* light direction, point light list) are those of the instruction and the
\* context whatever the two settings are.
DebugSettingsBlackenLightColors ==
    [][op'.name = "prepare"
          => LET instruction == op'.argument
                 render_settings == instruction.render_settings
                 directional_light == instruction.directional_light_with_shadow
             IN  /\ global_uniforms'.ambient_color =
                        IF render_settings.show_ambient_light
                        THEN components_linear(instruction.uniforms.ambient_light_color)
                        ELSE <<0, 0, 0, 1>>
                 /\ directional_light_uniforms'.color =
                        IF render_settings.show_directional_light
                        THEN components_linear(directional_light.color)
                        ELSE <<0, 0, 0, 1>>
                 /\ global_uniforms'.screen_size = screen_size
                 /\ global_uniforms'.point_light_count =
                        instruction.casters + instruction.plain
                 /\ directional_light_uniforms'.direction = <<directional_light.direction, 0>>
                 /\ Len(point_light_data') = instruction.casters + instruction.plain]_vars

\* A frame of a white ambient light and a red directional light has been
\* prepared with show_ambient_light off and show_directional_light on, after
\* an uploaded frame: the ambient color staged is black and the directional
\* light's color is red.
AmbientLightHiddenDirectionalShown ==
    /\ op.name = "prepare"
    /\ frames > 0
    /\ ~op.argument.render_settings.show_ambient_light
    /\ op.argument.render_settings.show_directional_light
    /\ op.argument.uniforms.ambient_light_color = Color(255, 255, 255)
    /\ global_uniforms.ambient_color = <<0, 0, 0, 1>>
    /\ directional_light_uniforms.color = <<1, 0, 0, 1>>

----------------------------------------------------------------------------
(* Properties of Map. *)

\* C31: render_walk_indicator reads no tile outside the map: for a position
\* with x >= width or y >= height it returns without a panic, reads no
\* tile and leaves the instruction as it was; for a position inside the
\* map it returns having read the tile of the position, and the
\* instruction is set exactly when that tile is walkable.
WalkIndicatorStaysInsideMap ==
    fn_pc = "render_walk_indicator"
        => LET map == fn_arg.map
               position == fn_arg.position
               index == position.x + position.y * map.width
           IN  /\ fn_result # Panic
               /\ (position.x >= map.width \/ position.y >= map.height)
                      => /\ fn_result.read = None
                         /\ fn_result.instruction = fn_arg.instruction
               /\ (position.x < map.width /\ position.y < map.height)
                      => /\ fn_result.read = Some(index)
                         /\ index < map.width * map.height
                         /\ IF "WALKABLE" \in map.tiles[index + 1].flags
                            THEN /\ fn_result.instruction.variant = "Some"
                                 /\ fn_result.instruction.value.color = "now"
                            ELSE fn_result.instruction = fn_arg.instruction

\* The walk indicator was requested for the position right of the last
\* column of a 2 by 2 map of walkable tiles: the earlier instruction stays.
WalkIndicatorRequestedOnRightEdge ==
    /\ fn_pc = "render_walk_indicator"
    /\ fn_arg.map.width = 2
    /\ fn_arg.map.height = 2
    /\ fn_arg.position = Vector2(2, 0)
    /\ "WALKABLE" \in fn_arg.map.tiles[3].flags
    /\ fn_arg.instruction = Some([color |-> "earlier"])
    /\ fn_result.instruction = fn_arg.instruction

\* C36: for every position that x_in_bounds and y_in_bounds accept,
\* get_tile reads an index inside the width * height tiles and returns the
\* tile at column x of row y.
GetTileOfAcceptedPosition ==
    (/\ fn_pc = "get_tile"
     /\ x_in_bounds(fn_arg.map, fn_arg.position.x)
     /\ y_in_bounds(fn_arg.map, fn_arg.position.y))
        => /\ fn_result # Panic
           /\ fn_result.index < fn_arg.map.width * fn_arg.map.height
           /\ fn_result.index % fn_arg.map.width = fn_arg.position.x
           /\ fn_result.index \div fn_arg.map.width = fn_arg.position.y

----------------------------------------------------------------------------
(* The color texture of the frame. *)

\* C32: the resolved color texture is present exactly when multisampling
\* is activated, so get_color_texture is the resolved texture under MSAA
\* and the forward color texture otherwise.
ResolvedColorTexturePresentUnderMsaa ==
    /\ resolved_color_texture.variant = "Some" <=> multisampling_activated(msaa)
    /\ multisampling_activated(msaa)
           => /\ get_color_texture = resolved_color_texture.value
              /\ get_color_texture.id # forward_color_texture.id
              /\ get_color_texture.sample_count = 1
    /\ ~multisampling_activated(msaa) => get_color_texture = forward_color_texture

\* update_msaa has set the sample count to four: the color texture is the
\* resolved texture created by that call.
MsaaSwitchedOn ==
    /\ op.name = "update_msaa"
    /\ op.argument.msaa = "X4"
    /\ updates = 1
    /\ resolved_color_texture.variant = "Some"
    /\ resolved_color_texture.value.id = allocated
    /\ get_color_texture = resolved_color_texture.value

\* C33: the texture returned by get_color_texture is a color storage
\* attachment if and only if the anti-aliasing mode is CMAA2.
ColorTextureIsStorageUnderCmaa2 ==
    get_color_texture.type = "ColorStorageAttachment"
        <=> screen_space_anti_aliasing = "Cmaa2"

\* CMAA2 was selected for a context with MSAA: the color texture is the
\* resolved texture, a storage attachment, and the multisampled forward
\* color texture is not.
Cmaa2SelectedUnderMsaa ==
    /\ op.name = "update_screen_space_anti_aliasing"
    /\ screen_space_anti_aliasing = "Cmaa2"
    /\ multisampling_activated(msaa)
    /\ get_color_texture = resolved_color_texture.value
    /\ get_color_texture.type = "ColorStorageAttachment"
    /\ forward_color_texture.type = "ColorAttachment"

----------------------------------------------------------------------------
(* Shadow caster lists of any length. *)

\* C34: whatever the number of shadow casters of the frame, the pass
\* context's prepare writes every serialized record inside its fixed-size
\* byte buffer, and GlobalContext's prepare gives every shadow caster a
\* texture index that names an existing slot of the cube array (index N
\* names slot N - 1).
ShadowCastersFitBufferAndCubeArray ==
    /\ frame_pc # "panicked"
    /\ frame_pc = "prepared"
           => \A index \in 0..(Len(uniforms_data) - 1) :
                  /\ index * aligned_size + SizeOfPassUniforms <= BufferDataLen
                  /\ UniformAt(buffer_data, index * aligned_size) = uniforms_data[index + 1]
    /\ \A r \in buffer_data : r.start + SizeOfPassUniforms <= BufferDataLen
    /\ \A i \in 1..Len(point_light_data) :
           point_light_data[i].texture_index - 1 < point_shadow_map_textures.count

----------------------------------------------------------------------------
(* Padded width of the picker attachments. *)

\* C35: for every screen width w the padded width p of the picker
\* attachments is at least w, p * block_size is a multiple of
\* COPY_BYTES_PER_ROW_ALIGNMENT, no width from w to p - 1 has that
\* property, and the picker buffer and the picker depth texture both have
\* width p.
PickerWidthIsSmallestAlignedWidth ==
    fn_pc = "create_screen_size_textures"
        => LET w == fn_arg.width
               p == fn_result.picker_buffer_texture.width
           IN  /\ p >= w
               /\ (p * PickerBlockSize) % COPY_BYTES_PER_ROW_ALIGNMENT = 0
               /\ \A q \in w..(p - 1) :
                      (q * PickerBlockSize) % COPY_BYTES_PER_ROW_ALIGNMENT # 0
               /\ fn_result.picker_depth_texture.width = p
               /\ fn_result.picker_buffer_texture.height = fn_arg.height
               /\ fn_result.picker_depth_texture.height = fn_arg.height

\* The textures of a 33 by 5 screen have been created: the picker
\* attachments are 64 wide.
PickerTexturesOf33x5 ==
    /\ fn_pc = "create_screen_size_textures"
    /\ fn_arg = ScreenSize(33, 5)
    /\ fn_result.picker_buffer_texture.width = 64
    /\ fn_result.picker_depth_texture.width = 64
    /\ fn_result.forward_color_texture.width = 33

----------------------------------------------------------------------------
(* Properties of PacketView. *)

\* C37: an update of the PacketView that runs with the update flag set
\* leaves as many child elements as the shared packet list has entries and
\* the cleared flag false, whatever appends and clears came before it; it
\* returns Reresolve exactly when it reset the cleared flag or changed the
\* child elements; an update with the update flag unset changes nothing and
\* returns None.
PacketViewShowsEveryPacket ==
    [][PacketViewUpdate =>
           /\ update =>
                  /\ Len(packet_elements') = Len(packets')
                  /\ \A i \in 1..Len(packets') : packet_elements'[i] = to_element(packets'[i])
                  /\ ~cleared'
                  /\ packet_change_event' = Some("Reresolve")
                         <=> (cleared \/ packet_elements' # packet_elements)
           /\ ~update =>
                  /\ packet_change_event' = None
                  /\ UNCHANGED <<packets, cleared, update, packet_elements,
                                 cached_packet_count>>]_vars

\* An update with the update flag set has run and returned Reresolve: the
\* view shows the two entries of the list and the cleared flag is false.
PacketViewUpdatedAfterClearAndAppends ==
    /\ packet_pc = "updated"
    /\ update
    /\ packet_change_event = Some("Reresolve")
    /\ packets = <<"outgoing", "incoming">>
    /\ packet_elements = <<to_element("outgoing"), to_element("incoming")>>
    /\ cached_packet_count = 2
    /\ ~cleared

----------------------------------------------------------------------------
(* Properties of CharacterPreview. *)

\* The event of a click action.
ClickEvent(name, argument) == Some([action |-> "Event", event |-> UserEvent(name, argument)])

\* C38: a left click on a CharacterPreview emits CancelSwitchCharacterSlot
\* when the move request names the slot of the preview and
\* SwitchCharacterSlot(slot) when it names another slot; without a move
\* request, a left click on a preview that has been built or updated since
\* the last change of the character list and of the move request emits
\* SelectCharacter(slot) if the character list has a character in the slot
\* and OpenCharacterCreationWindow(slot) if it has none.
LeftClickEmitsEventOfSlot ==
    click_action # None
        => IF move_request = Some(slot)
           THEN click_action = ClickEvent("CancelSwitchCharacterSlot", None)
           ELSE IF move_request # None
                THEN click_action = ClickEvent("SwitchCharacterSlot", slot)
                ELSE preview_pc = "built"
                         => click_action =
                                IF \E i \in 1..Len(characters) :
                                       characters[i].character_number = slot
                                THEN ClickEvent("SelectCharacter", slot)
                                ELSE ClickEvent("OpenCharacterCreationWindow", slot)

\* A click on the preview of slot 1, built from the current character list
\* without a move request, has selected the character of the slot, the
\* second of the list.
SelectsCharacterAfterMoveRequest ==
    /\ preview_pc = "built"
    /\ slot = 1
    /\ move_request = None
    /\ click_action # None
    /\ click_action = ClickEvent("SelectCharacter", 1)
    /\ characters = <<CharacterInformation(2), CharacterInformation(1)>>
    /\ Len(preview_elements) = 3

----------------------------------------------------------------------------
(* Properties of SmoothedValue. *)

Abs(value) == IF value < 0 THEN -value ELSE value

====
